---- MODULE Spec2Model ----
(***************************************************************************)
(* Model of the VPN supervisor core of DualOpenFortivpn:                   *)
(*   - core/vpn_session.py : VPNSession (supervisor thread, stop, signal   *)
(*                           delivery, process registry)                   *)
(*   - core/privilege.py   : PrivilegeManager (elevation, cached secret)   *)
(*   - core/routing.py     : RouteManager (apply_routes, cleanup)          *)
(*   - gui/main_window.py  : MainWindow._connect_profile/_disconnect_profile*)
(* Three specifications share one set of variables:                        *)
(*   Spec       : one VPNSession thread against its caller (start / stop)  *)
(*   SpecSignal : _send_signal_group / _send_signal_pid over all outcomes  *)
(*   SpecRoute  : RouteManager against a kernel routing table              *)
(***************************************************************************)
EXTENDS Integers, Sequences, FiniteSets, TLC

\* ------------------------------------------------------------------ bounds
\* Launch attempts one supervisor thread may make before the model stops it.
MaxAttempts == 6

\* Longest list of route targets handed to one apply_routes call.
MaxTargets == 2
\* apply_routes calls in one behaviour.
MaxApplies == 2

\* ------------------------------------------------------- program constants
\* vpn_session.py:348 and :355, the base of the reconnect backoff.
BackoffBase == 5
\* vpn_session.py:357, the cap of the reconnect backoff.
BackoffCap == 60

VARIABLES
    \* ---- VPNSession (one supervisor thread and its caller)
    pc,               \* position of the supervisor thread in run/_run_once
    caller,           \* position of the GUI thread in connect/disconnect
    teRet,            \* where _terminate_entry returns to in the caller
    tePid,            \* pid handed to _terminate_entry by the caller
    stop_event,       \* self._stop_event
    allow_reconnect,  \* self._allow_reconnect
    auto_reconnect,   \* profile.auto_reconnect
    process,          \* self._process: pid of the Popen handle, 0 for None
    curPid,           \* pid of the last spawned subprocess, 0 before any
    osProc,           \* OS state of that subprocess
    killable,         \* signals sent by _terminate_entry end the subprocess
    active_processes, \* VPNSession._active_processes (pids of this profile)
    connected_once,   \* local of _run_once
    success,          \* result of the last _run_once
    backoff,          \* local of run
    attempts,         \* number of _run_once calls made
    failStreak,       \* consecutive attempts that never reached Connected
    announced,        \* last "Reconnecting in <n>s" value, 0 before any
    prevBackoff,      \* backoff before the last announcement
    joined,           \* session.wait(5000) saw the thread finished
    sessions,         \* MainWindow.sessions: the profile names that have an entry
    disc_queue,       \* a `disconnected` signal is queued for the main window
    reconnected,      \* a further supervisor was started for the profile name
    stopLog,          \* what the last stop() call did, in order
    cfg_profiles,     \* ConfigManager._profiles: name -> profile, or None
    cfg_file,         \* the profiles the configuration file holds
    cfg_lock,         \* ConfigManager._lock: "free" or the thread that holds it
    cfg,              \* per thread: its call on the ConfigManager and where it is
    failure,          \* why the last attempt ended before its subprocess ran, or ""
    connects,         \* `connected` events emitted in the current attempt
    interface_name,   \* VPNSession._interface_name; "" is None
    connected_iface,  \* _interface_name when Connected was emitted in the attempt
    bcall,            \* concurrent build_command calls: per thread where it is, and the lock
    scan,             \* a cleanup pass for one profile beside the supervisor of another
    race,             \* per session: its status and its apply_routes call in flight
    profile,          \* the VPNProfile of the session (host, port, auth_type, ...)
    launch,           \* the last openfortivpn command line built, and from what
    \* ---- RouteManager and the kernel
    kernel,           \* the kernel routing table: a set of routes
    up_ifaces,        \* tunnel interfaces present (psutil.net_if_addrs)
    session_routes,   \* RouteManager._session_routes
    pending_restores, \* RouteManager._pending_restores
    cmdLog,           \* `ip` commands run by the last route operation
    lastOp,           \* the last route operation, with the table before it
    cleaned,          \* per session: cleaned since its last apply, and with commands or not
    applies,          \* apply_routes calls made
    kernel0,          \* the kernel routing table before any session touched it
    \* PrivilegeManager
    pkexec_path,      \* shutil.which("pkexec") found a helper
    sudo_path,        \* shutil.which("sudo") found a helper
    cached_password,  \* _cached_password; "" is None or the empty string
    cache_allowed,    \* _cache_allowed
    \* the last call of _send_signal_group / _send_signal_pid
    sig,
    \* the last call of ensure_password_cached / build_command, and whether
    \* ensure_password_cached(force_allow=True) has obtained a password since
    \* the last clear_cached_password
    priv,
    forced

profileVars == <<profile, launch>>
windowVars == <<sessions, disc_queue, reconnected, stopLog>>
configVars == <<cfg_profiles, cfg_file, cfg_lock, cfg>>
attemptVars == <<failure, connects, interface_name, connected_iface>>
supervisorVars == <<profileVars, windowVars, attemptVars, race, bcall, scan, pc, caller, teRet, tePid, stop_event,
                    allow_reconnect, auto_reconnect, process, curPid, osProc, killable,
                    active_processes, connected_once, success, backoff,
                    attempts, failStreak, announced, prevBackoff, joined>>
sessionVars == <<supervisorVars, configVars>>

routeVars == <<kernel, up_ifaces, session_routes, pending_restores, cmdLog,
               lastOp, cleaned, applies, kernel0>>

privilegeVars == <<pkexec_path, sudo_path, cached_password, cache_allowed>>
signalVars == <<privilegeVars, sig, priv, forced>>
vars == <<sessionVars, routeVars, signalVars>>

Min(a, b) == IF a < b THEN a ELSE b

\* ------------------------------------------------------------------------
\* RouteManager (core/routing.py) and the kernel routing table it drives
\* ------------------------------------------------------------------------

\* Session ids (profile names), in the order the session table lists them.
SessionSeq == <<"corp", "lab">>
Sessions == {SessionSeq[i] : i \in 1..Len(SessionSeq)}

\* Raw route targets a profile may list; all are valid CIDRs.
Targets == {"10.0.0.0/24", "10.0.0.5/24"}
\* Targets of both address families: an IPv4 host, which is the address
\* pppd gives ppp0, and an IPv6 network.
FamilyTargets == {"10.0.0.2", "fd00::/64"}
TunnelIfaces == {"ppp0", "ppp1"}
NoIface == ""

\* _resolve_targets: ipaddress.ip_network(target, strict=False) clears the
\* host bits of a CIDR and reports the address family.
ResolveTarget(t) ==
    CASE t = "10.0.0.0/24" -> [destination |-> "10.0.0.0/24", family |-> 4]
      [] t = "10.0.0.5/24" -> [destination |-> "10.0.0.0/24", family |-> 4]
      [] t = "fd00::/64" -> [destination |-> "fd00::/64", family |-> 6]
      [] t = "10.0.0.2" -> [destination |-> "10.0.0.2", family |-> 4]

\* _normalize_destination: canonical form with an explicit prefix length.
NormalizeDestination(d) ==
    CASE d = "10.0.0.5/24" -> "10.0.0.0/24"
      [] d = "10.0.0.2" -> "10.0.0.2/32"
      [] OTHER -> d

\* `ip route show` prints the metric unless it is 0; `ip route replace`
\* without a metric installs metric 0.
MetricText(m) ==
    CASE m = 0 -> ""
      [] m = 100 -> "100"
      [] m = 200 -> "200"
MetricValue(s) ==
    CASE s = "" -> 0
      [] s = "0" -> 0
      [] s = "100" -> 100
      [] s = "200" -> 200

\* Routes that may exist before any session touches the table.
OriginalRoutes ==
    { [dst |-> "10.0.0.0/24", via |-> "192.168.1.1", dev |-> "eth0", metric |-> 100],
      [dst |-> "10.0.0.0/24", via |-> "", dev |-> "wlan0", metric |-> 0] }
FamilyOriginalRoutes ==
    { [dst |-> "10.0.0.2/32", via |-> "192.168.1.1", dev |-> "eth0", metric |-> 100],
      [dst |-> "fd00::/64", via |-> "fe80::1", dev |-> "eth0", metric |-> 100] }

NoEntry == [destination |-> "", via |-> "", dev |-> "", metric |-> ""]

\* _parse_route_line applied to the line `ip route show` prints for a route.
ParseRouteLine(r) ==
    [destination |-> r.dst, via |-> r.via, dev |-> r.dev, metric |-> MetricText(r.metric)]

RoutesTo(k, d) == {r \in k : r.dst = d}
LowestMetric(rs) == CHOOSE r \in rs : \A q \in rs : r.metric <= q.metric

RECURSIVE ByMetric(_)
ByMetric(rs) ==
    IF rs = {} THEN <<>>
    ELSE LET r == LowestMetric(rs) IN <<r>> \o ByMetric(rs \ {r})

\* _capture_existing_route: the parsed lines of `ip route show <destination>`.
CaptureExistingRoute(k, d) ==
    LET rs == ByMetric(RoutesTo(k, d)) IN [i \in 1..Len(rs) |-> ParseRouteLine(rs[i])]

\* One privileged `ip route` command against the kernel table k with the
\* interfaces `up` present.  `faults` are the actions the environment makes
\* fail.  The result is the exit status, whether the message says the route
\* exists, and the table afterwards.
\* inet6 is whether the argv carries `-6` after `ip`.
Cmd(action, d, via, dev, metric, inet6) ==
    [action |-> action, destination |-> d, via |-> via, dev |-> dev,
     metric |-> metric, inet6 |-> inet6]

RunCommand(k, up, faults, c) ==
    LET fail == [ok |-> FALSE, exists |-> FALSE, k |-> k]
        m == MetricValue(c.metric)
    IN  IF c.action \in faults THEN fail
        ELSE IF c.action = "add" /\ faults \cap {"exists", "exists_once"} # {}
        THEN [ok |-> FALSE, exists |-> TRUE, k |-> k]
        ELSE IF c.action = "flush" THEN [ok |-> TRUE, exists |-> FALSE, k |-> k]
        ELSE IF c.action = "del" THEN
            LET rs == {r \in RoutesTo(k, c.destination) : c.dev = "" \/ r.dev = c.dev}
            IN  IF rs = {} THEN fail
                ELSE [ok |-> TRUE, exists |-> FALSE, k |-> k \ {LowestMetric(rs)}]
        ELSE IF c.dev # "" /\ c.dev \in TunnelIfaces /\ c.dev \notin up THEN fail
        ELSE IF c.action = "add" THEN
            IF \E r \in RoutesTo(k, c.destination) : r.metric = m
            THEN [ok |-> FALSE, exists |-> TRUE, k |-> k]
            ELSE [ok |-> TRUE, exists |-> FALSE,
                  k |-> k \cup {[dst |-> c.destination, via |-> c.via, dev |-> c.dev, metric |-> m]}]
        ELSE \* replace
            [ok |-> TRUE, exists |-> FALSE,
             k |-> {r \in k : ~(r.dst = c.destination /\ r.metric = m)}
                   \cup {[dst |-> c.destination, via |-> c.via, dev |-> c.dev, metric |-> m]}]

\* _build_route_command that never appends `-6`.
BuildRouteCommandInet4(action, d, iface, family, metric) ==
    Cmd(action, d, "", iface, metric, FALSE)

\* _build_route_command
BuildRouteCommand(action, d, iface, family, metric) ==
    Cmd(action, d, "", iface, metric, family = 6)

\* flush_cmd, lines 222-225, 334-337, 441-444 and 556-559.
FlushCommand(family) == Cmd("flush", "cache", "", "", "", family = 6)

\* The command of _capture_existing_route, lines 134-137.
ShowCommand(d, family) == Cmd("show", d, "", "", "", family = 6)

\* _run_privileged, lines 38-51: PrivilegeManager.build_command raises
\* RuntimeError when the credential is unavailable or its prompt is cancelled,
\* and Popen raises OSError; the fault of an action whose command raises.
RaiseFault(action) ==
    CASE action = "del" -> "raise_del"
      [] action = "add" -> "raise_add"
      [] action = "replace" -> "raise_replace"
      [] action = "flush" -> "raise_flush"
      [] OTHER -> "raise_none"

Raises(faults, c) == RaiseFault(c.action) \in faults

\* The state a route operation threads through its commands: the kernel
\* table, the commands handed to _run_privileged, the manager's two tables,
\* and exc, whether an exception is propagating (the statements up to the
\* handler that catches it are skipped).
Issue(st, up, faults, c) ==
    IF st.exc THEN st
    ELSE IF Raises(faults, c) THEN [st EXCEPT !.log = Append(@, c), !.exc = TRUE]
    ELSE [st EXCEPT !.k = RunCommand(st.k, up, faults, c).k, !.log = Append(@, c)]

\* Whether _run_privileged returns exit status 0 for c.
Succeeds(st, up, faults, c) ==
    ~st.exc /\ ~Raises(faults, c) /\ RunCommand(st.k, up, faults, c).ok

\* _restore_previous_route: `ip route replace` with the captured fields.
RestoreCommand(entry, family) ==
    Cmd("replace", entry.destination, entry.via, entry.dev, entry.metric, family = 6)

\* _restore_removed_routes, lines 216-220: replace every removed entry and
\* collect the ones that failed.
RECURSIVE RestoreEach(_, _, _, _, _, _)
RestoreEach(st, up, faults, family, entries, i) ==
    IF i > Len(entries) THEN st
    ELSE LET c == RestoreCommand(entries[i], family)
             ok == RunCommand(st.k, up, faults, c).ok
             st1 == Issue(st, up, faults, c)
             st2 == IF ok THEN [st1 EXCEPT !.restored = TRUE]
                    ELSE [st1 EXCEPT !.failed = Append(@, [family |-> family, entry |-> entries[i]])]
         IN  RestoreEach(st2, up, faults, family, entries, i + 1)

\* _restore_removed_routes
RestoreRemovedRoutes(st, up, faults, sid, family, entries) ==
    IF entries = <<>> THEN st
    ELSE LET r == RestoreEach([k |-> st.k, log |-> st.log, restored |-> FALSE, failed |-> <<>>,
                               exc |-> FALSE],
                              up, faults, family, entries, 1)
             log1 == IF r.restored THEN Append(r.log, FlushCommand(family)) ELSE r.log
         IN  [st EXCEPT !.k = r.k, !.log = log1,
                        !.pr = [@ EXCEPT ![sid] = @ \o r.failed]]

\* apply_routes, lines 301-310: an entry not yet seen joins removed_entries.
RECURSIVE AppendUnseen(_, _, _)
AppendUnseen(removed, dups, i) ==
    IF i > Len(dups) THEN removed
    ELSE AppendUnseen(IF \E j \in 1..Len(removed) : removed[j] = dups[i]
                      THEN removed ELSE Append(removed, dups[i]),
                      dups, i + 1)

\* apply_routes, lines 301-333: the per-interface delete of each duplicate.
RECURSIVE DeleteSpecific(_, _, _, _, _, _)
DeleteSpecific(st, up, faults, d, family, dups) ==
    IF dups = <<>> THEN st
    ELSE LET e == Head(dups)
             st1 == IF e.dev # ""
                    THEN Issue(st, up, faults, BuildRouteCommand("del", d, e.dev, family, ""))
                    ELSE st
         IN  DeleteSpecific(st1, up, faults, d, family, Tail(dups))

\* apply_routes, lines 287-343: remove the existing entries of a destination.
DeleteDuplicates(st, up, faults, d, family, dups) ==
    LET st1 == Issue(st, up, faults, BuildRouteCommand("del", d, "", family, ""))
        st2 == DeleteSpecific(st1, up, faults, d, family, dups)
    IN  Issue(st2, up, faults, FlushCommand(family))

AppliedRoute(d, iface, family, removed) ==
    [destination |-> d, interface |-> iface, family |-> family,
     replaced |-> removed # <<>>,
     previous |-> IF removed # <<>> THEN removed[1] ELSE NoEntry,
     removed |-> removed]

\* The state apply_routes starts from; adds and removed are the outcomes of
\* the add commands and the entries removed for the destination at hand,
\* iters what became of each destination so far.
ApplyStart(k, sr, pr) ==
    [k |-> k, log |-> <<>>, applied |-> <<>>, sr |-> sr, pr |-> pr, exc |-> FALSE,
     adds |-> <<>>, removed |-> <<>>, iters |-> <<>>]

\* An apply_routes that retries a duplicate failure twice.
RetryTwice(attempt) == attempt <= 1

\* apply_routes, line 381: `attempt == 0`.
RetryAllowed(attempt) == attempt = 0

\* The faults still there when the add is retried after time.sleep(0.5): a
\* transient duplicate is gone.
RetryFaults(faults) == faults \ {"exists_once"}

AddOutcome(res) == IF res.ok THEN "ok" ELSE IF res.exists THEN "exists" ELSE "failed"

\* apply_routes, lines 281-403: one normalized destination, with its retry.
RECURSIVE ApplyDestination(_, _, _, _, _, _, _, _, _)
ApplyDestination(st, up, faults, sid, d, family, iface, attempt, removed) ==
    LET dups == CaptureExistingRoute(st.k, d)
        st0 == [st EXCEPT !.log = Append(@, ShowCommand(d, family))]
        st1 == IF dups # <<>> THEN DeleteDuplicates(st0, up, faults, d, family, dups) ELSE st0
        removed1 == IF dups # <<>> THEN AppendUnseen(removed, dups, 1) ELSE removed
        add == BuildRouteCommand("add", d, iface, family, "0")
        res == RunCommand(st1.k, up, faults, add)
        st2 == [Issue(st1, up, faults, add) EXCEPT !.adds = Append(@, AddOutcome(res)),
                                                   !.removed = removed1]
    IN  IF res.ok
        THEN [st2 EXCEPT !.applied = Append(@, AppliedRoute(d, iface, family, removed1)),
                         !.log = Append(@, ShowCommand(d, family))]
        ELSE IF res.exists /\ RetryAllowed(attempt)
        THEN ApplyDestination(st2, up, RetryFaults(faults), sid, d, family, iface,
                              attempt + 1, removed1)
        ELSE IF removed1 # <<>>
        THEN RestoreRemovedRoutes(st2, up, faults, sid, family, removed1)
        ELSE st2

\* What became of one destination of the target list: st and st1 are the
\* states before and after its iteration of the loop.
WithIter(st, st1, d, family) ==
    [st1 EXCEPT !.iters = Append(@, [destination |-> d, family |-> family,
                                     first |-> Len(st.log) + 1, last |-> Len(st1.log),
                                     adds |-> st1.adds, removed |-> st1.removed,
                                     recorded |-> Len(st1.applied) - Len(st.applied)])]

\* apply_routes, lines 271-403: the loop over the targets.
RECURSIVE ApplyTargets(_, _, _, _, _, _)
ApplyTargets(st, up, faults, sid, targets, iface) ==
    IF targets = <<>> THEN st
    ELSE LET t == ResolveTarget(Head(targets))
             d == NormalizeDestination(t.destination)
         IN  CHOOSE out \in UNION {
                 {ApplyTargets(WithIter(s0, s1, d, t.family), up, faults, sid, Tail(targets), iface) :
                      s1 \in {ApplyDestination([s0 EXCEPT !.adds = <<>>, !.removed = <<>>],
                                                up, faults, sid, d, t.family, iface, 0, <<>>)}} :
                 s0 \in {st}} : TRUE

\* apply_routes once the interface is known and present (lines 256-405).
ApplyRoutesOp(k, up, faults, sr, pr, sid, targets, iface) ==
    LET st == ApplyTargets(ApplyStart(k, sr, pr), up, faults, sid, targets, iface)
    IN  IF st.applied # <<>> THEN [st EXCEPT !.sr = [@ EXCEPT ![sid] = st.applied]] ELSE st

\* A cleanup that takes the route of another session whatever the state of
\* its interface.
OtherUsableAnyInterface(other, d, up) == NormalizeDestination(other.destination) = d

\* cleanup, lines 459-471: the route of another session serves when its
\* normalized destination is the one cleaned up and its interface is present.
OtherUsable(other, d, up) ==
    NormalizeDestination(other.destination) = d /\ other.interface \in up

\* cleanup, lines 455-510: re-add the override of another session that still
\* holds the destination through an interface that is up.  si, j walk the
\* session table and the routes of one session.
RECURSIVE RestoreFromOthers(_, _, _, _, _, _, _, _)
RestoreFromOthers(st, up, faults, sid, d, family, si, j) ==
    IF st.exc \/ si > Len(SessionSeq) THEN st
    ELSE LET o == SessionSeq[si] IN
         IF o = sid \/ j > Len(st.sr[o])
         THEN RestoreFromOthers(st, up, faults, sid, d, family, si + 1, 1)
         ELSE LET other == st.sr[o][j] IN
              IF ~OtherUsable(other, d, up)
              THEN RestoreFromOthers(st, up, faults, sid, d, family, si, j + 1)
              ELSE LET add == BuildRouteCommand("add", d, other.interface, other.family, "0")
                       res == RunCommand(st.k, up, faults, add)
                       st1 == Issue(Issue(st, up, faults, add), up, faults, FlushCommand(family))
                   IN  IF st1.exc THEN st1
                       ELSE IF res.ok \/ res.exists
                       THEN [st1 EXCEPT !.restored = TRUE,
                                        !.sr = [@ EXCEPT ![o] = [@ EXCEPT ![j] =
                                                   [@ EXCEPT !.replaced = FALSE]]]]
                       ELSE RestoreFromOthers(st1, up, faults, sid, d, family, si, j + 1)

\* cleanup, lines 513-522: the first removed entry that can be restored.
RECURSIVE RestoreFirstRemoved(_, _, _, _, _, _)
RestoreFirstRemoved(st, up, faults, family, entries, i) ==
    IF st.exc \/ i > Len(entries) THEN st
    ELSE LET c == RestoreCommand(entries[i], family)
             ok == Succeeds(st, up, faults, c)
             st1 == Issue(st, up, faults, c)
             st2 == Issue(st1, up, faults, FlushCommand(family))
         IN  IF ok
             THEN (IF st2.exc THEN st2 ELSE [st2 EXCEPT !.restored = TRUE])
             ELSE RestoreFirstRemoved(st1, up, faults, family, entries, i + 1)

\* cleanup, lines 413-537: the body of the try statement for one recorded
\* route of the session.
CleanupRoute(st, up, faults, sid, route) ==
    LET del == BuildRouteCommand("del", route.destination, route.interface, route.family, "")
        st1 == Issue(Issue(st, up, faults, del), up, faults, FlushCommand(route.family))
        st2 == RestoreFromOthers([st1 EXCEPT !.restored = FALSE], up, faults, sid,
                                 route.destination, route.family, 1, 1)
        st3 == IF st2.restored THEN st2
               ELSE RestoreFirstRemoved(st2, up, faults, route.family, route.removed, 1)
    IN  IF st3.exc \/ st3.restored \/ route.previous = NoEntry THEN st3
        ELSE LET c == RestoreCommand(route.previous, route.family)
                 ok == Succeeds(st3, up, faults, c)
                 st4 == Issue(st3, up, faults, c)
             IN  IF ok THEN Issue(st4, up, faults, FlushCommand(route.family)) ELSE st4

\* cleanup, lines 413 and 538-539: the loop over the recorded routes; the
\* handler of each iteration logs the exception and the loop goes on.
RECURSIVE CleanupRoutes(_, _, _, _, _, _)
CleanupRoutes(st, up, faults, sid, applied, i) ==
    IF i > Len(applied) THEN st
    ELSE CleanupRoutes([CleanupRoute(st, up, faults, sid, applied[i]) EXCEPT !.exc = FALSE],
                       up, faults, sid, applied, i + 1)

\* cleanup, lines 540-565: the pending restorations of the session, outside
\* any try statement.
RECURSIVE RestorePending(_, _, _, _, _)
RestorePending(st, up, faults, pending, i) ==
    IF st.exc \/ i > Len(pending) THEN st
    ELSE LET c == RestoreCommand(pending[i].entry, pending[i].family)
             ok == Succeeds(st, up, faults, c)
             st1 == Issue(st, up, faults, c)
         IN  RestorePending(IF ok THEN [st1 EXCEPT !.families = @ \cup {pending[i].family}] ELSE st1,
                            up, faults, pending, i + 1)

FlushFamilies(st, up, faults) ==
    LET st1 == IF 4 \in st.families THEN Issue(st, up, faults, FlushCommand(4)) ELSE st
    IN  IF 6 \in st.families THEN Issue(st1, up, faults, FlushCommand(6)) ELSE st1

\* A cleanup that leaves the entry of the session in the table.
PopSessionKeep(table, sid) == table

\* cleanup, lines 408-409: dict.pop(session_id, []) on either table.
PopSession(table, sid) == [table EXCEPT ![sid] = <<>>]

\* RouteManager.cleanup
CleanupOp(k, up, faults, sr, pr, sid) ==
    LET applied == sr[sid]
        pending == pr[sid]
        st0 == [k |-> k, log |-> <<>>, restored |-> FALSE, families |-> {},
                sr |-> PopSession(sr, sid), pr |-> PopSession(pr, sid), exc |-> FALSE]
    IN  IF applied = <<>> /\ pending = <<>> THEN st0
        ELSE LET st1 == CleanupRoutes(st0, up, faults, sid, applied, 1)
             IN  IF pending = <<>> THEN st1
                 ELSE FlushFamilies(RestorePending(st1, up, faults, pending, 1), up, faults)

\* psutil.net_if_addrs(): the addresses assigned to an interface.  The
\* RouteManager reads only the interface names (lines 78, 247, 258, 261, 454).
InterfaceAddresses(i) ==
    CASE i = "ppp0" -> {"10.0.0.2"}
      [] i = "ppp1" -> {"10.0.1.2"}
      [] OTHER -> {}

\* The tunnel interface openfortivpn brings up for a session.
IfaceOf(sid) == IF sid = SessionSeq[1] THEN "ppp0" ELSE "ppp1"

TargetLists == UNION {[1..n -> Targets] : n \in 0..MaxTargets}
FamilyTargetLists ==
    {<<>>} \cup {<<t>> : t \in FamilyTargets}
           \cup {<<t, u>> : <<t, u>> \in {p \in FamilyTargets \X FamilyTargets : p[1] # p[2]}}

\* The distinct normalized destinations of a target list.
Destinations(targets) ==
    {NormalizeDestination(ResolveTarget(targets[i]).destination) : i \in 1..Len(targets)}

\* What the last route operation was: for an apply, its destinations, the
\* kernel table before it and the destinations other sessions held; a cleanup
\* that directly follows the apply of its session keeps them; a cleanup of a
\* session cleaned before, with no apply in between, is a repeat and keeps the
\* tables it started from.
NoPrior == [k |-> {}, sr |-> <<>>, pr |-> <<>>]
NoOp == [op |-> "none", sid |-> "", dests |-> {}, iface |-> NoIface, before |-> {},
         held |-> {}, repeat |-> FALSE, prior |-> NoPrior, raised |-> FALSE,
         attempted |-> TRUE, iters |-> <<>>]

\* Whether the commands handed to _run_privileged by a cleanup include the
\* delete of every recorded route and the replace of every pending
\* restoration.
AttemptedAll(log, applied, pending) ==
    /\ \A i \in 1..Len(applied) : \E n \in 1..Len(log) :
           log[n] = BuildRouteCommand("del", applied[i].destination, applied[i].interface,
                                      applied[i].family, "")
    /\ \A i \in 1..Len(pending) : \E n \in 1..Len(log) :
           log[n] = RestoreCommand(pending[i].entry, pending[i].family)

\* Destinations some session other than sid has recorded.
HeldByOthers(sr, sid) ==
    {sr[o][j].destination : <<o, j>> \in {<<o, j>> \in (Sessions \ {sid}) \X (1..MaxTargets) :
                                             j <= Len(sr[o])}}

RouteInit ==
    /\ kernel \in SUBSET OriginalRoutes
    /\ kernel0 = kernel
    /\ up_ifaces = {}
    /\ session_routes = [s \in Sessions |-> <<>>]
    /\ pending_restores = [s \in Sessions |-> <<>>]
    /\ cmdLog = <<>>
    /\ lastOp = NoOp
    /\ cleaned = [s \in Sessions |-> "no"]
    /\ applies = 0

\* The tunnel interface of a session appears or disappears; the kernel drops
\* the routes through an interface that goes away.
IfaceUp(i) ==
    /\ i \notin up_ifaces
    /\ up_ifaces' = up_ifaces \cup {i}
    /\ lastOp' = NoOp
    /\ UNCHANGED <<kernel, session_routes, pending_restores, cmdLog, cleaned, applies, kernel0>>

IfaceDown(i) ==
    /\ i \in up_ifaces
    /\ up_ifaces' = up_ifaces \ {i}
    /\ kernel' = {r \in kernel : r.dev # i}
    /\ lastOp' = NoOp
    /\ UNCHANGED <<session_routes, pending_restores, cmdLog, cleaned, applies, kernel0>>

\* RouteManager.apply_routes(session_id, targets, interface_hint).  Without a
\* hint it polls for a new ppp/tun interface (lines 246-255); with a hint
\* that is not present yet it polls for it (lines 258-269); `appears` is
\* whether the interface shows up while it polls.
ApplyRoutes(sid, targets, hint, appears, faults) ==
    LET iface == IF hint # NoIface THEN hint
                 ELSE IF appears /\ IfaceOf(sid) \notin up_ifaces THEN IfaceOf(sid)
                 ELSE NoIface
        up == IF appears /\ iface # NoIface THEN up_ifaces \cup {iface} ELSE up_ifaces
        runs == targets # <<>> /\ iface # NoIface /\ iface \in up
    IN  /\ applies < MaxApplies
        /\ applies' = applies + 1 /\ kernel0' = kernel0
        /\ up_ifaces' = IF targets # <<>> THEN up ELSE up_ifaces
        /\ cleaned' = [cleaned EXCEPT ![sid] = "no"]
        /\ IF runs
           THEN \E st \in {ApplyRoutesOp(kernel, up, faults, session_routes,
                                          pending_restores, sid, targets, iface)} :
                    /\ kernel' = st.k
                    /\ session_routes' = st.sr
                    /\ pending_restores' = st.pr
                    /\ cmdLog' = st.log
                    /\ lastOp' = [op |-> "apply", sid |-> sid,
                                  dests |-> Destinations(targets), iface |-> iface,
                                  before |-> kernel,
                                  held |-> HeldByOthers(session_routes, sid),
                                  repeat |-> FALSE, prior |-> NoPrior,
                                  raised |-> FALSE, attempted |-> TRUE,
                                  iters |-> st.iters]
           ELSE /\ cmdLog' = <<>>
                /\ lastOp' = NoOp
                /\ UNCHANGED <<kernel, session_routes, pending_restores>>

\* RouteManager.cleanup(session_id); raised is whether an exception leaves
\* the call.
Cleanup(sid, faults) ==
    \E st \in {CleanupOp(kernel, up_ifaces, faults, session_routes, pending_restores, sid)} :
        /\ kernel' = st.k
        /\ session_routes' = st.sr
        /\ pending_restores' = st.pr
        /\ cmdLog' = st.log
        /\ lastOp' = LET follows == lastOp.op = "apply" /\ lastOp.sid = sid
                          repeat == cleaned[sid] # "no"
                      IN  [op |-> "cleanup", sid |-> sid, iface |-> IfaceOf(sid),
                           dests |-> IF follows THEN lastOp.dests ELSE {},
                           before |-> IF follows THEN lastOp.before ELSE {},
                           held |-> IF follows THEN lastOp.held ELSE {},
                           repeat |-> repeat,
                           prior |-> IF repeat
                                     THEN [k |-> kernel, sr |-> session_routes,
                                           pr |-> pending_restores]
                                     ELSE NoPrior,
                           raised |-> st.exc,
                           attempted |-> AttemptedAll(st.log, session_routes[sid],
                                                      pending_restores[sid]),
                           iters |-> <<>>]
        /\ cleaned' = [cleaned EXCEPT ![sid] =
                           IF @ # "no" THEN @ ELSE IF st.log # <<>> THEN "worked" ELSE "idle"]
        /\ UNCHANGED <<up_ifaces, applies, kernel0>>

\* ------------------------------------------------------------------------
\* PrivilegeManager
\* ------------------------------------------------------------------------

\* What the password provider answers: None when the user cancels, else the
\* password typed (possibly empty) and whether it may be kept.
NoResponse == [given |-> FALSE, password |-> "", allow_cache |-> FALSE]
Responses ==
    {NoResponse} \cup
    {[given |-> TRUE, password |-> pw, allow_cache |-> a] : pw \in {"", "secret"}, a \in BOOLEAN}

\* The fields of a PrivilegeManager.
Manager(pk, su, pw, allowed) ==
    [pkexec_path |-> pk, sudo_path |-> su, cached_password |-> pw, cache_allowed |-> allowed]

\* clear_cached_password
ClearCachedPassword(pm) == [pm EXCEPT !.cached_password = "", !.cache_allowed = FALSE]

\* ensure_password_cached with a cached password forgetting the permission to
\* reuse it unless it is forced.
EnsurePasswordCachedDowngrading(pm, force_allow, response) ==
    IF pm.pkexec_path \/ ~pm.sudo_path
    THEN [pm |-> pm, raised |-> FALSE, error |-> "", prompted |-> FALSE]
    ELSE IF pm.cached_password # ""
    THEN [pm |-> [pm EXCEPT !.cache_allowed = force_allow],
          raised |-> FALSE, error |-> "", prompted |-> FALSE]
    ELSE IF ~response.given
    THEN [pm |-> pm, raised |-> TRUE, error |-> "cancelled", prompted |-> TRUE]
    ELSE [pm |-> [pm EXCEPT !.cached_password = response.password,
                            !.cache_allowed = response.allow_cache \/ force_allow],
          raised |-> FALSE, error |-> "", prompted |-> TRUE]

\* ensure_password_cached marking the cache reusable before the answer of the
\* provider is known.
EnsurePasswordCachedEager(pm, force_allow, response) ==
    IF pm.pkexec_path \/ ~pm.sudo_path
    THEN [pm |-> pm, raised |-> FALSE, error |-> "", prompted |-> FALSE]
    ELSE IF pm.cached_password # ""
    THEN [pm |-> IF force_allow THEN [pm EXCEPT !.cache_allowed = TRUE] ELSE pm,
          raised |-> FALSE, error |-> "", prompted |-> FALSE]
    ELSE IF ~response.given
    THEN [pm |-> [pm EXCEPT !.cache_allowed = TRUE],
          raised |-> TRUE, error |-> "cancelled", prompted |-> TRUE]
    ELSE [pm |-> [pm EXCEPT !.cached_password = response.password,
                            !.cache_allowed = response.allow_cache \/ force_allow],
          raised |-> FALSE, error |-> "", prompted |-> TRUE]

\* ensure_password_cached: the manager afterwards, whether RuntimeError was
\* raised and which, and whether the password provider was called.
EnsurePasswordCached(pm, force_allow, response) ==
    IF pm.pkexec_path \/ ~pm.sudo_path
    THEN [pm |-> pm, raised |-> FALSE, error |-> "", prompted |-> FALSE]
    ELSE IF pm.cached_password # ""
    THEN [pm |-> IF force_allow THEN [pm EXCEPT !.cache_allowed = TRUE] ELSE pm,
          raised |-> FALSE, error |-> "", prompted |-> FALSE]
    ELSE IF ~response.given
    THEN [pm |-> pm, raised |-> TRUE, error |-> "cancelled", prompted |-> TRUE]
    ELSE [pm |-> [pm EXCEPT !.cached_password = response.password,
                            !.cache_allowed = response.allow_cache \/ force_allow],
          raised |-> FALSE, error |-> "", prompted |-> TRUE]

\* build_command asking the provider whatever is cached.
PrivilegeBuildCommandAlwaysAsks(pm, base_command, response) ==
    IF pm.pkexec_path
    THEN [pm |-> pm, raised |-> FALSE, error |-> "", prompted |-> FALSE,
          argv |-> <<"pkexec">> \o base_command, password |-> ""]
    ELSE IF ~pm.sudo_path
    THEN [pm |-> pm, raised |-> TRUE, error |-> "unavailable", prompted |-> FALSE,
          argv |-> <<>>, password |-> ""]
    ELSE LET e == EnsurePasswordCached(ClearCachedPassword(pm), FALSE, response)
         IN  [pm |-> e.pm, raised |-> e.raised \/ e.pm.cached_password = "",
              error |-> IF e.raised THEN e.error
                        ELSE IF e.pm.cached_password = "" THEN "empty" ELSE "",
              prompted |-> e.prompted,
              argv |-> IF e.raised \/ e.pm.cached_password = "" THEN <<>>
                       ELSE <<"sudo", "-S">> \o base_command,
              password |-> IF e.raised THEN "" ELSE e.pm.cached_password]

\* build_command asking the provider again when the cached password may not
\* be reused.
PrivilegeBuildCommandAsksUnlessAllowed(pm, base_command, response) ==
    IF pm.pkexec_path
    THEN [pm |-> pm, raised |-> FALSE, error |-> "", prompted |-> FALSE,
          argv |-> <<"pkexec">> \o base_command, password |-> ""]
    ELSE IF ~pm.sudo_path
    THEN [pm |-> pm, raised |-> TRUE, error |-> "unavailable", prompted |-> FALSE,
          argv |-> <<>>, password |-> ""]
    ELSE IF pm.cached_password # "" /\ pm.cache_allowed
    THEN [pm |-> pm, raised |-> FALSE, error |-> "", prompted |-> FALSE,
          argv |-> <<"sudo", "-S">> \o base_command, password |-> pm.cached_password]
    ELSE PrivilegeBuildCommandAlwaysAsks(pm, base_command, response)

\* build_command: the argv with its helper in front and the password to feed
\* on stdin, or RuntimeError.
PrivilegeBuildCommand(pm, base_command, response) ==
    LET refused(m, why, asked) ==
            [pm |-> m, raised |-> TRUE, error |-> why, prompted |-> asked,
             argv |-> <<>>, password |-> ""]
        sudo(m, asked) ==
            [pm |-> m, raised |-> FALSE, error |-> "", prompted |-> asked,
             argv |-> <<"sudo", "-S">> \o base_command, password |-> m.cached_password]
    IN  IF pm.pkexec_path
        THEN [pm |-> pm, raised |-> FALSE, error |-> "", prompted |-> FALSE,
              argv |-> <<"pkexec">> \o base_command, password |-> ""]
        ELSE IF ~pm.sudo_path THEN refused(pm, "unavailable", FALSE)
        ELSE IF pm.cached_password # "" /\ pm.cache_allowed THEN sudo(pm, FALSE)
        ELSE LET e == EnsurePasswordCached(pm, FALSE, response)
             IN  IF e.raised THEN refused(e.pm, e.error, e.prompted)
                 ELSE IF e.pm.cached_password = "" THEN refused(e.pm, "empty", e.prompted)
                 ELSE sudo(e.pm, e.prompted)

\* What may happen to the elevated command: subprocess.Popen or the write to
\* its stdin raises OSError, or it runs and exits with a status.
SpawnOutcomes == {"started", "OSError"}
ExitCodes == {0, 1}
NoRun == [outcome |-> "none", code |-> 0, argv |-> <<>>, spawned |-> 0]

\* run_privileged: how the call ends ("returned", "RuntimeError" from
\* build_command, "OSError" from the spawn), the exit status, the argv and
\* the number of commands started.
RunPrivileged(pm, command, response, spawn, code) ==
    LET b == PrivilegeBuildCommand(pm, command, response)
    IN  IF b.raised
        THEN [pm |-> b.pm, run |-> [NoRun EXCEPT !.outcome = "RuntimeError"]]
        ELSE IF spawn = "OSError"
        THEN [pm |-> b.pm, run |-> [NoRun EXCEPT !.outcome = "OSError", !.argv = b.argv]]
        ELSE [pm |-> b.pm,
              run |-> [outcome |-> "returned", code |-> code, argv |-> b.argv, spawned |-> 1]]

\* ------------------------------------------------------------------------
\* _send_signal_group and _send_signal_pid
\* ------------------------------------------------------------------------

Pids == {"4242"}
NoPgid == "None"
Signals == {"SIGTERM", "SIGKILL"}

\* sig.value as it is formatted into the kill command.
SignalValue(s) == IF s = "SIGTERM" THEN "15" ELSE "9"

\* What os.kill / os.killpg does: it succeeds or raises.
KillOutcomes == {"ok", "PermissionError", "ProcessLookupError", "OSError"}

\* A dispatch that escalates for a target that no longer exists.
HandlerOfEscalatingLookup(outcome) ==
    CASE outcome = "ok" -> "return True"
      [] outcome = "PermissionError" -> "escalate"
      [] outcome = "ProcessLookupError" -> "escalate"
      [] OTHER -> "return False"

\* The try/except ladder of both functions: which clause handles the outcome
\* of the unprivileged signal.
HandlerOf(outcome) ==
    CASE outcome = "ok" -> "return True"
      [] outcome = "PermissionError" -> "escalate"
      [] outcome = "ProcessLookupError" -> "return True"
      [] OTHER -> "return False"

\* The body of `except PermissionError`: one run_privileged call; only
\* RuntimeError is caught around it.
EscalatedKill(pm, command, response, spawn, code) ==
    LET r == RunPrivileged(pm, command, response, spawn, code)
    IN  [pm |-> r.pm, run |-> r.run, calls |-> 1,
         result |-> IF r.run.outcome = "RuntimeError" THEN "False"
                    ELSE IF r.run.outcome = "OSError" THEN "raised"
                    ELSE IF r.run.code # 0 THEN "False"
                    ELSE "True"]

Unescalated(pm, result) == [pm |-> pm, run |-> NoRun, calls |-> 0, result |-> result]

\* _send_signal_group(pgid, sig, privilege, profile)
SendSignalGroupOp(pm, pgid, s, outcome, response, spawn, code) ==
    IF pgid = NoPgid THEN Unescalated(pm, "False")
    ELSE IF HandlerOf(outcome) = "escalate"
    THEN EscalatedKill(pm, <<"/bin/kill", <<"-", SignalValue(s)>>, <<"-", pgid>>>>,
                       response, spawn, code)
    ELSE IF HandlerOf(outcome) = "return True" THEN Unescalated(pm, "True")
    ELSE Unescalated(pm, "False")

\* _send_signal_pid(pid, sig, privilege, profile)
SendSignalPidOp(pm, pid, s, outcome, response, spawn, code) ==
    IF HandlerOf(outcome) = "escalate"
    THEN EscalatedKill(pm, <<"/bin/kill", <<"-", SignalValue(s)>>, pid>>,
                       response, spawn, code)
    ELSE IF HandlerOf(outcome) = "return True" THEN Unescalated(pm, "True")
    ELSE Unescalated(pm, "False")

NoSignal ==
    [fn |-> "none", target |-> NoPgid, signal |-> "", unprivileged |-> "none",
     result |-> "none", calls |-> 0, run |-> NoRun, changed |-> FALSE]

CurrentManager == Manager(pkexec_path, sudo_path, cached_password, cache_allowed)

BaseCommands == {<<"ip", "route", "flush", "cache">>, <<"/bin/kill", "-15", "4242">>}

NoCall ==
    [fn |-> "none", force_allow |-> FALSE, base |-> <<>>, raised |-> FALSE, error |-> "",
     prompted |-> FALSE, argv |-> <<>>, password |-> "",
     before |-> Manager(FALSE, FALSE, "", FALSE)]

SetManager(pm) ==
    /\ cached_password' = pm.cached_password
    /\ cache_allowed' = pm.cache_allowed
    /\ UNCHANGED <<pkexec_path, sudo_path>>

\* A call of one of the two functions; the unprivileged signal is attempted
\* unless the process group is unknown.
SignalCall(fn, target, s, outcome, st) ==
    /\ SetManager(st.pm)
    /\ sig' = [fn |-> fn, target |-> target, signal |-> s,
               unprivileged |-> IF fn = "_send_signal_group" /\ target = NoPgid
                                THEN "none" ELSE outcome,
               result |-> st.result, calls |-> st.calls, run |-> st.run,
               changed |-> st.pm # CurrentManager]
    /\ priv' = NoCall
    /\ UNCHANGED forced

SendSignalGroup(pgid, s, outcome, response, spawn, code) ==
    SignalCall("_send_signal_group", pgid, s, outcome,
               SendSignalGroupOp(CurrentManager, pgid, s, outcome, response, spawn, code))

SendSignalPid(pid, s, outcome, response, spawn, code) ==
    SignalCall("_send_signal_pid", pid, s, outcome,
               SendSignalPidOp(CurrentManager, pid, s, outcome, response, spawn, code))

\* MainWindow: clear_cached_password when a session ends or the user asks.
ForgetPassword ==
    /\ SetManager(ClearCachedPassword(CurrentManager))
    /\ sig' = NoSignal
    /\ priv' = NoCall
    /\ forced' = FALSE

\* A call of ensure_password_cached(force_allow).
EnsureCached(force_allow, response) ==
    \E e \in {EnsurePasswordCached(CurrentManager, force_allow, response)} :
        /\ SetManager(e.pm)
        /\ priv' = [fn |-> "ensure_password_cached", force_allow |-> force_allow,
                    base |-> <<>>, raised |-> e.raised, error |-> e.error,
                    prompted |-> e.prompted, argv |-> <<>>, password |-> "",
                    before |-> CurrentManager]
        /\ forced' = (forced \/ (force_allow /\ ~e.raised /\ e.pm.cached_password # ""))
        /\ sig' = NoSignal

\* A call of build_command(base_command).
BuildElevated(base_command, response) ==
    \E b \in {PrivilegeBuildCommand(CurrentManager, base_command, response)} :
        /\ SetManager(b.pm)
        /\ priv' = [fn |-> "build_command", force_allow |-> FALSE, base |-> base_command,
                    raised |-> b.raised, error |-> b.error, prompted |-> b.prompted,
                    argv |-> b.argv, password |-> b.password, before |-> CurrentManager]
        /\ UNCHANGED forced
        /\ sig' = NoSignal

\* The privilege manager as constructed, with no signal sent yet.
SignalIdle ==
    /\ pkexec_path = TRUE
    /\ sudo_path = TRUE
    /\ cached_password = ""
    /\ cache_allowed = FALSE
    /\ sig = NoSignal
    /\ priv = NoCall
    /\ forced = FALSE

\* ------------------------------------------------------------------------
\* ConfigManager (config/manager.py)
\* ------------------------------------------------------------------------

\* Threads that call the manager, the profile names, and the profiles a name
\* may map to; None is "".
CfgThreads == {"main", "worker"}
CfgNames == {"corp", "lab"}
CfgNone == ""
CfgValues == {"vpn.example.com", "vpn2.example.com"}
CfgOps == {"get", "save", "upsert", "remove"}

CfgCall(p, op, name, value, result) ==
    [pc |-> p, op |-> op, name |-> name, value |-> value, result |-> result]
CfgNoCall == CfgCall("idle", "", "", CfgNone, CfgNone)

\* ConfigManager.__init__ with an empty configuration file.
ConfigIdle ==
    /\ cfg_profiles = [n \in CfgNames |-> CfgNone]
    /\ cfg_file = [n \in CfgNames |-> CfgNone]
    /\ cfg_lock = "free"
    /\ cfg = [t \in CfgThreads |-> CfgNoCall]

\* ConfigManager.__init__: _load reads what the configuration file holds.
ConfigInit ==
    /\ cfg_file \in [CfgNames -> CfgValues \cup {CfgNone}]
    /\ cfg_profiles = cfg_file
    /\ cfg_lock = "free"
    /\ cfg = [t \in CfgThreads |-> CfgNoCall]

\* A thread calls get(name), save(), upsert(profile) or remove(name) and
\* reaches the `with self._lock` of the method.
CfgEnter(t, op, name, value) ==
    /\ cfg[t].pc \in {"idle", "returned"}
    /\ cfg' = [cfg EXCEPT ![t] = CfgCall(IF op = "save" THEN "save_lock" ELSE "lock",
                                         op, name, value, CfgNone)]
    /\ UNCHANGED <<cfg_profiles, cfg_file, cfg_lock>>

\* threading.Lock.acquire at lines 49, 53 and 58: blocks until the lock is
\* free, whoever holds it.
CfgAcquire(t) ==
    /\ cfg[t].pc = "lock"
    /\ cfg_lock = "free"
    /\ cfg_lock' = t
    /\ cfg' = [cfg EXCEPT ![t].pc = "body"]
    /\ UNCHANGED <<cfg_profiles, cfg_file>>

\* The body of get (line 50), upsert (lines 54-55) and remove (lines 59-61)
\* under the lock, up to the return or the call of save().
CfgBody(t) ==
    /\ cfg[t].pc = "body"
    /\ LET c == cfg[t] IN
       CASE c.op = "get" ->
              /\ cfg' = [cfg EXCEPT ![t].pc = "returned", ![t].result = cfg_profiles[c.name]]
              /\ cfg_lock' = "free"
              /\ UNCHANGED cfg_profiles
         [] c.op = "upsert" ->
              /\ cfg_profiles' = [cfg_profiles EXCEPT ![c.name] = c.value]
              /\ cfg' = [cfg EXCEPT ![t].pc = "save_lock"]
              /\ UNCHANGED cfg_lock
         [] c.op = "remove" /\ cfg_profiles[c.name] # CfgNone ->
              /\ cfg_profiles' = [cfg_profiles EXCEPT ![c.name] = CfgNone]
              /\ cfg' = [cfg EXCEPT ![t].pc = "save_lock"]
              /\ UNCHANGED cfg_lock
         [] OTHER ->
              /\ cfg' = [cfg EXCEPT ![t].pc = "returned", ![t].result = cfg_profiles[c.name]]
              /\ cfg_lock' = "free"
              /\ UNCHANGED cfg_profiles
    /\ UNCHANGED cfg_file

\* save, line 37: threading.Lock.acquire, which is not reentrant.
CfgSaveAcquire(t) ==
    /\ cfg[t].pc = "save_lock"
    /\ cfg_lock = "free"
    /\ cfg_lock' = t
    /\ cfg' = [cfg EXCEPT ![t].pc = "save_body"]
    /\ UNCHANGED <<cfg_profiles, cfg_file>>

\* save, lines 38-42: the profiles are written and the lock is released; the
\* caller returns, and get(name) would then return cfg_profiles[name].
CfgSaveBody(t) ==
    /\ cfg[t].pc = "save_body"
    /\ cfg_file' = cfg_profiles
    /\ cfg_lock' = "free"
    /\ cfg' = [cfg EXCEPT ![t].pc = "returned",
                          ![t].result = IF cfg[t].op = "save" THEN CfgNone
                                        ELSE cfg_profiles[cfg[t].name]]
    /\ UNCHANGED cfg_profiles

\* ------------------------------------------------------------------------
\* The openfortivpn command line
\* ------------------------------------------------------------------------

\* A host is the sequence of the parts its text has between colons; a port is
\* its decimal text; None is "".  Every element of an argv is the sequence of
\* the parts of its text; "host:port" is the parts of the host and the port.
Hosts ==
    { <<"vpn.example.com">>, <<"vpn.example.com", "8443">>, <<"vpn.example.com", "08443">>,
      <<"vpn.example.com", "abc">>, <<"", "8443">> }
Ports == {"443", "10443"}
AuthTypes == {"saml", "SAML", "password"}
SamlPorts == {"", "8020"}
Usernames == {"", "alice"}

VPNProfile(host, port, auth_type, saml_port, username) ==
    [host |-> host, port |-> port, auth_type |-> auth_type, saml_port |-> saml_port,
     username |-> username]

Profiles ==
    {VPNProfile(h, p, a, sp, u) : h \in Hosts, p \in Ports, a \in AuthTypes,
                                  sp \in SamlPorts, u \in Usernames}

\* str.lower() on an auth_type.
Lower(text) == IF text = "SAML" THEN "saml" ELSE text

\* str.isdigit() and str(int(text)) on the last part of a host.
IsDigit(text) == text \in {"8443", "08443"}
IntText(text) == IF text = "08443" THEN "8443" ELSE text

\* f"{host}:{port}"
HostPort(host, port) == host \o <<port>>

\* The option after the target, lines 452-459 of _build_command and lines
\* 14-21 of build_openfortivpn_command.
SamlOption(p) ==
    IF p.saml_port # "" THEN <<<<"--saml-login=", p.saml_port>>>> ELSE <<<<"--saml-login">>>>
UserOption(p) ==
    IF p.username # "" THEN <<<<"--username=", p.username>>>> ELSE <<>>

\* build_openfortivpn_command(profile)
BuildOpenfortivpnCommand(p) ==
    <<<<"openfortivpn">>, HostPort(p.host, p.port)>>
        \o (IF Lower(p.auth_type) = "saml" THEN SamlOption(p) ELSE UserOption(p))

\* VPNSession._normalized_host_port: a trailing ":<digits>" of the host
\* becomes the port, and the profile is rewritten.
NormalizedHostPort(p) ==
    IF Len(p.host) > 1 /\ SubSeq(p.host, 1, Len(p.host) - 1) # <<"">> /\ IsDigit(p.host[Len(p.host)])
    THEN [p EXCEPT !.host = SubSeq(p.host, 1, Len(p.host) - 1),
                   !.port = IntText(p.host[Len(p.host)])]
    ELSE p

\* _build_command with --saml-login never carrying the port.
SessionBuildCommandPlainSaml(p) ==
    LET q == NormalizedHostPort(p)
    IN  [profile |-> q,
         argv |-> <<<<"openfortivpn">>, HostPort(q.host, q.port)>>
                      \o (IF Lower(q.auth_type) = "saml" THEN <<<<"--saml-login">>>>
                          ELSE UserOption(q))]

\* VPNSession._build_command: the argv and the profile afterwards.
SessionBuildCommand(p) ==
    LET q == NormalizedHostPort(p)
    IN  [profile |-> q,
         argv |-> <<<<"openfortivpn">>, HostPort(q.host, q.port)>>
                      \o (IF Lower(q.auth_type) = "saml" THEN SamlOption(q)
                          ELSE UserOption(q))]

NoLaunch == [fn |-> "none", argv |-> <<>>, before |-> VPNProfile(<<>>, "", "", "", "")]

\* _run_once, line 373: command = self._build_command().
SessionBuildsCommand ==
    \E b \in {SessionBuildCommand(profile)} :
        /\ profile' = b.profile
        /\ launch' = [fn |-> "_build_command", argv |-> b.argv, before |-> profile]

\* A call of build_openfortivpn_command(profile).
BuilderBuildsCommand ==
    /\ launch' = [fn |-> "build_openfortivpn_command",
                  argv |-> BuildOpenfortivpnCommand(profile), before |-> profile]
    /\ UNCHANGED profile

\* The profile of the session whose thread is followed.
ProfileIdle ==
    /\ profile = VPNProfile(<<"vpn.example.com", "8443">>, "443", "saml", "", "")
    /\ launch = NoLaunch

\* ------------------------------------------------------------------------
\* VPNSession
\* ------------------------------------------------------------------------

\* psutil.pid_exists(pid): true for a running process and for one that has
\* exited but was not yet reaped by poll()/wait().
PidExists(p) == p # 0 /\ p = curPid /\ osProc \in {"running", "zombie"}

\* The backoff without its cap, and without its reset after Connected.
NextBackoffNoCap(ok, b) == IF ok THEN BackoffBase ELSE b * 2
NextBackoffNoReset(ok, b) == Min(b * 2, BackoffCap)

\* run, lines 354-357: the backoff after an attempt.
NextBackoff(ok, b) == IF ok THEN BackoffBase ELSE Min(b * 2, BackoffCap)

\* _register_process / _unregister_process.
RegisterProcess(reg, p) == reg \cup {p}
UnregisterProcess(reg, p) == reg \ {p}

\* The effect of SIGTERM / SIGKILL sent by _terminate_entry on the subprocess.
Signalled(st) == IF st = "running" /\ killable THEN "zombie" ELSE st

\* run has returned and _run_once has cleared self._process.
ThreadFinished == pc = "done" /\ process = 0 /\ osProc # "running"

\* One step of stop(): a status emitted, a running subprocess found, a kill
\* command handed to PrivilegeManager.run_privileged, a route cleanup.
Event(ev, signal, target, pid) == [ev |-> ev, signal |-> signal, target |-> target, pid |-> pid]

\* The subprocess is sudo or pkexec and runs in a session of its own: its
\* group is its pid, and os.killpg / os.kill of the desktop user raise
\* PermissionError, so that every signal is a /bin/kill run through the
\* privilege manager (lines 88-98 and 133-143).  When signals do not end the
\* subprocess the command exits non-zero.
\* _terminate_entry, lines 192-194: SIGTERM.
TerminateSignals(pid) ==
    <<Event("run_privileged", "SIGTERM", "group", pid)>>
        \o (IF killable THEN <<>> ELSE <<Event("run_privileged", "SIGTERM", "pid", pid)>>)

\* _terminate_entry, lines 197-198: SIGKILL to the group and to the pid.
KillSignals(pid) ==
    <<Event("run_privileged", "SIGKILL", "group", pid),
      Event("run_privileged", "SIGKILL", "pid", pid)>>

\* MainWindow.__init__: no session yet.
WindowInit ==
    /\ sessions = {}
    /\ disc_queue = FALSE
    /\ reconnected = FALSE
    /\ stopLog = <<>>

\* The processes a cleanup pass may meet: one left by an earlier run, the one
\* Popen returned to the other profile's supervisor (pkexec or sudo), the
\* openfortivpn sudo runs as its child, and the tracked one of the profile
\* cleaned up.
ScanPids == {"orphan", "helper", "child", "own"}
NoProc == [name |-> "", cmdline |-> <<>>, state |-> "none"]
NoScanProfile == [name |-> "", host |-> <<>>, port |-> "", auth_type |-> "", saml_port |-> ""]
ScanIdle ==
    [a |-> NoScanProfile, b |-> NoScanProfile, procs |-> [p \in ScanPids |-> NoProc],
     active_processes |-> {}, bpc |-> "idle", pc |-> "idle", signature |-> FALSE,
     signatures |-> {}, tracked |-> {}, pids |-> {}, signalled |-> {}]

\* The threads that call build_command: two supervisors and a route operation.
BcThreads == {"corp", "lab", "routes"}

\* No build_command call is under way; the RLock of the manager is free.
BcIdle ==
    [pc |-> [t \in BcThreads |-> "idle"], lock |-> "free", prompts |-> 0, first |-> "none",
     password |-> [t \in BcThreads |-> ""]]

\* No session is connected and no apply_routes call is in flight.
RaceIdle == [s \in Sessions |-> [status |-> "idle", applying |-> FALSE, result |-> <<>>]]

\* The variables of the session of profile `corp` before connect.
SessionIdleBeside ==
    /\ race = RaceIdle
    /\ bcall = BcIdle
    /\ pc = "idle"
    /\ caller = "init"
    /\ teRet = "none"
    /\ tePid = 0
    /\ stop_event = FALSE
    /\ allow_reconnect = TRUE
    /\ process = 0
    /\ curPid = 0
    /\ osProc = "none"
    /\ active_processes = {}
    /\ connected_once = FALSE
    /\ success = FALSE
    /\ backoff = BackoffBase
    /\ attempts = 0
    /\ failStreak = 0
    /\ announced = 0
    /\ prevBackoff = BackoffBase
    /\ joined = FALSE
    /\ failure = ""
    /\ connects = 0
    /\ interface_name = NoIface
    /\ connected_iface = NoIface
    /\ ProfileIdle
    /\ WindowInit

\* The variables of the session of profile `corp` before connect; no cleanup
\* pass is under way.
SessionIdle == SessionIdleBeside /\ scan = ScanIdle

RouteIdle ==
    /\ kernel = {}
    /\ kernel0 = {}
    /\ up_ifaces = {}
    /\ session_routes = [s \in Sessions |-> <<>>]
    /\ pending_restores = [s \in Sessions |-> <<>>]
    /\ cmdLog = <<>>
    /\ lastOp = NoOp
    /\ cleaned = [s \in Sessions |-> "no"]
    /\ applies = 0

\* PrivilegeManager.__init__, lines 18-24: sudo is installed, pkexec may be.
PrivilegeIdle ==
    /\ pkexec_path \in BOOLEAN
    /\ sudo_path = TRUE
    /\ cached_password = ""
    /\ cache_allowed = FALSE
    /\ sig = NoSignal
    /\ priv = NoCall
    /\ forced = FALSE

Init ==
    /\ SessionIdle
    /\ ConfigIdle
    /\ auto_reconnect \in BOOLEAN
    /\ killable \in BOOLEAN
    /\ RouteIdle
    /\ PrivilegeIdle

\* What the sudo password prompt of the main window returns: None when it is
\* cancelled, or the password and whether it may be reused.
SessionResponses ==
    {NoResponse} \cup {[given |-> TRUE, password |-> "secret", allow_cache |-> a] : a \in BOOLEAN}

\* The fields of the PrivilegeManager after a call of the session or of the
\* main window that returned pm.
SessionSetManager(pm) ==
    /\ SetManager(pm)
    /\ UNCHANGED <<sig, priv, forced>>

\* MainWindow._disconnect_profile, lines 309-310, and _on_disconnected, lines
\* 323-324: with no session left in `rest` and reuse not allowed the cached
\* password is cleared.
ClearIfLast(rest) ==
    IF rest = {} /\ ~cache_allowed
    THEN SessionSetManager(ClearCachedPassword(CurrentManager))
    ELSE UNCHANGED signalVars

\* The supervisor thread is inside run().
SupervisorRunning == pc \notin {"idle", "done"}

Profile == SessionSeq[1]

threadLocals == <<connected_once, success, backoff, attempts, failStreak, announced,
                  prevBackoff>>
callerVars == <<caller, teRet, tePid, joined>>
flagVars == <<stop_event, allow_reconnect, auto_reconnect, killable>>
procVars == <<process, curPid, osProc, active_processes>>

\* MainWindow._connect_profile, lines 259-261 and 287-299: a name without an
\* entry gets one, after ensure_password_cached() when pkexec is missing, and
\* session.start().  A cancelled prompt leaves everything as it was.
Start(response) ==
    /\ caller = "init" /\ pc = "idle"
    /\ Profile \notin sessions
    /\ \E e \in {EnsurePasswordCached(CurrentManager, FALSE, response)} :
           /\ ~e.raised
           /\ SessionSetManager(e.pm)
    /\ sessions' = sessions \cup {Profile}
    /\ caller' = "started"
    /\ pc' = "run_top"
    /\ UNCHANGED <<teRet, tePid, joined, flagVars, procVars, threadLocals, routeVars,
                   configVars, race, bcall, scan, attemptVars, profileVars, disc_queue, reconnected, stopLog>>

\* run, lines 349-350: the loop test.
RunLoopTest ==
    /\ pc = "run_top"
    /\ stop_event \/ attempts < MaxAttempts
    /\ pc' = IF stop_event THEN "run_end" ELSE "build_command"
    /\ UNCHANGED <<callerVars, flagVars, procVars, threadLocals, routeVars, signalVars, configVars, race, bcall, scan, attemptVars, profileVars, windowVars>>

\* _run_once, lines 371-383: build the elevated command, which prompts for
\* the sudo password when none is cached; a RuntimeError of the privilege
\* manager ends the attempt.
BuildCommand(response) ==
    /\ pc = "build_command"
    /\ attempts' = attempts + 1
    /\ connected_once' = FALSE
    /\ connects' = 0
    /\ interface_name' = NoIface
    /\ connected_iface' = NoIface
    /\ \E b \in {PrivilegeBuildCommand(CurrentManager, SessionBuildCommand(profile).argv,
                                       response)} :
           /\ SessionSetManager(b.pm)
           /\ failure' = IF b.raised THEN b.error ELSE ""
           /\ success' = IF b.raised THEN FALSE ELSE success
           /\ pc' = IF b.raised THEN "after_once" ELSE "stop_check"
    /\ SessionBuildsCommand
    /\ UNCHANGED <<callerVars, flagVars, procVars, backoff, failStreak, announced,
                   prevBackoff, routeVars, configVars, race, bcall, scan, windowVars>>

\* _run_once, lines 384-385.
StopCheck ==
    /\ pc = "stop_check"
    /\ success' = IF stop_event THEN FALSE ELSE success
    /\ pc' = IF stop_event THEN "after_once" ELSE "popen"
    /\ UNCHANGED <<callerVars, flagVars, procVars, connected_once, backoff, attempts,
                   failStreak, announced, prevBackoff, routeVars, signalVars, configVars, race, bcall, scan, attemptVars, profileVars, windowVars>>

\* _run_once, lines 386-396 and 407-412: subprocess.Popen starts the process,
\* or the binary is missing.
Popen(found) ==
    /\ pc = "popen"
    /\ IF found
       THEN /\ curPid' = attempts
            /\ osProc' = "running"
            /\ pc' = "assign"
            /\ UNCHANGED <<success, failure>>
       ELSE /\ success' = FALSE
            /\ failure' = "binary_missing"
            /\ pc' = "after_once"
            /\ UNCHANGED <<curPid, osProc>>
    /\ UNCHANGED <<callerVars, flagVars, process, active_processes, connected_once,
                   backoff, attempts, failStreak, announced, prevBackoff, routeVars, signalVars,
                   configVars, race, bcall, scan, connects, interface_name, connected_iface, profileVars,
                   windowVars>>

\* _run_once, line 387: the handle is stored in self._process.
AssignProcess ==
    /\ pc = "assign"
    /\ process' = curPid
    /\ pc' = "register"
    /\ UNCHANGED <<callerVars, flagVars, curPid, osProc, active_processes, threadLocals,
                   routeVars, signalVars, configVars, race, bcall, scan, attemptVars, profileVars, windowVars>>

\* _run_once, lines 397-406.
Register ==
    /\ pc = "register"
    /\ active_processes' = RegisterProcess(active_processes, process)
    /\ pc' = "read_loop"
    /\ UNCHANGED <<callerVars, flagVars, process, curPid, osProc, threadLocals, routeVars, signalVars, configVars, race, bcall, scan, attemptVars, profileVars, windowVars>>

\* _run_once, line 417: the test of the output loop with the stop flag set.
ReadLoopStop ==
    /\ pc = "read_loop" /\ stop_event
    /\ pc' = "route_cleanup"
    /\ UNCHANGED <<callerVars, flagVars, procVars, threadLocals, routeVars, signalVars, configVars, race, bcall, scan, attemptVars, profileVars, windowVars>>

\* _run_once, lines 417-418: the test with the flag clear; the thread then
\* blocks in readline().
ReadLoopEnter ==
    /\ pc = "read_loop" /\ ~stop_event
    /\ pc' = "readline"
    /\ UNCHANGED <<callerVars, flagVars, procVars, threadLocals, routeVars, signalVars, configVars, race, bcall, scan, attemptVars, profileVars, windowVars>>

\* _run_once, lines 418-433: readline() returns a line with a connection
\* marker ("Tunnel is up", "Established"); Connected and `connected` are
\* emitted when connected_once is not set yet.
ReadEstablished ==
    /\ pc = "readline" /\ osProc = "running"
    /\ connects' = IF connected_once THEN connects ELSE connects + 1
    /\ connected_iface' = IF connected_once THEN connected_iface ELSE interface_name
    /\ connected_once' = TRUE
    /\ pc' = "read_loop"
    /\ UNCHANGED <<callerVars, flagVars, procVars, success, backoff, attempts,
                   failStreak, announced, prevBackoff, routeVars, signalVars, configVars, race, bcall, scan,
                   failure, interface_name, profileVars, windowVars>>

\* _run_once, lines 418-429, and _handle_output, lines 478-489: readline()
\* returns a line "Interface <i> is UP"; the name is stored unless the stop
\* flag is set.
ReadInterface(i) ==
    /\ pc = "readline" /\ osProc = "running"
    /\ interface_name' = IF stop_event THEN interface_name ELSE i
    /\ pc' = "read_loop"
    /\ UNCHANGED <<callerVars, flagVars, procVars, threadLocals, routeVars, signalVars,
                   configVars, race, bcall, scan, failure, connects, connected_iface, profileVars, windowVars>>

\* _run_once, lines 418-421: readline() returns "" and poll() finds that the
\* subprocess has exited.
ReadExited ==
    /\ pc = "readline" /\ osProc \in {"zombie", "reaped"}
    /\ osProc' = "reaped"
    /\ pc' = "route_cleanup"
    /\ UNCHANGED <<callerVars, flagVars, process, curPid, active_processes, threadLocals,
                   routeVars, signalVars, configVars, race, bcall, scan, attemptVars, profileVars, windowVars>>

\* _run_once, lines 434-435: route cleanup for the profile, and the interface
\* name is forgotten.
RouteCleanupOnExit ==
    /\ pc = "route_cleanup"
    /\ Cleanup(Profile, {})
    /\ interface_name' = NoIface
    /\ pc' = "proc_wait"
    /\ UNCHANGED <<callerVars, flagVars, procVars, threadLocals, signalVars, configVars, race, bcall, scan,
                   failure, connects, connected_iface, profileVars, windowVars>>

\* _run_once, lines 437-438: process.wait() returns once the process has
\* exited, and `disconnected` is emitted to the main window.
ProcWait ==
    /\ pc = "proc_wait"
    /\ osProc \in {"zombie", "reaped"}
    /\ osProc' = "reaped"
    /\ disc_queue' = TRUE
    /\ pc' = "unregister"
    /\ UNCHANGED <<callerVars, flagVars, process, curPid, active_processes, threadLocals,
                   routeVars, signalVars, configVars, race, bcall, scan, attemptVars, profileVars, sessions, reconnected, stopLog>>

\* _run_once, lines 438-447.
Unregister ==
    /\ pc = "unregister"
    /\ active_processes' = UnregisterProcess(active_processes, process)
    /\ process' = 0
    /\ success' = connected_once
    /\ pc' = "after_once"
    /\ UNCHANGED <<callerVars, flagVars, curPid, osProc, connected_once, backoff, attempts,
                   failStreak, announced, prevBackoff, routeVars, signalVars, configVars, race, bcall, scan, attemptVars, profileVars, windowVars>>

\* run, lines 352-358: leave the loop, or set and announce the next wait.
AfterOnce ==
    /\ pc = "after_once"
    /\ IF stop_event \/ ~auto_reconnect \/ ~allow_reconnect
       THEN /\ pc' = "run_end"
            /\ UNCHANGED <<backoff, announced, failStreak, prevBackoff>>
       ELSE /\ backoff' = NextBackoff(success, backoff)
            /\ prevBackoff' = backoff
            /\ announced' = backoff'
            /\ failStreak' = IF success THEN 0 ELSE failStreak + 1
            /\ pc' = "countdown"
    /\ UNCHANGED <<callerVars, flagVars, procVars, connected_once, success, attempts,
                   routeVars, signalVars, configVars, race, bcall, scan, attemptVars, profileVars, windowVars>>

\* run, lines 359-362: the countdown ends, or sees the stop flag.
Countdown ==
    /\ pc = "countdown"
    /\ pc' = "run_top"
    /\ UNCHANGED <<callerVars, flagVars, procVars, threadLocals, routeVars, signalVars, configVars, race, bcall, scan, attemptVars, profileVars, windowVars>>

\* run, lines 363-368: Stopped, then cleanup_profile_processes: every tracked
\* pid and every untracked matching process is signalled, and a tracked pid
\* that no longer exists is unregistered.
RunEnd ==
    /\ pc = "run_end"
    /\ osProc' = Signalled(osProc)
    /\ active_processes' = {p \in active_processes : PidExists(p)}
    /\ pc' = "done"
    /\ UNCHANGED <<callerVars, flagVars, process, curPid, threadLocals, routeVars, signalVars, configVars, race, bcall, scan, attemptVars, profileVars, windowVars>>

\* The subprocess exits on its own (authentication failure, link loss).
ProcessExits ==
    /\ osProc = "running"
    /\ osProc' = "zombie"
    /\ UNCHANGED <<pc, callerVars, flagVars, process, curPid, active_processes,
                   threadLocals, routeVars, signalVars, configVars, race, bcall, scan, attemptVars, profileVars, windowVars>>

\* MainWindow._disconnect_profile, lines 303-305, and stop, lines 325-327:
\* the session the window holds for the name is stopped; stop sets the flags
\* and emits Disconnecting.
StopSetFlags ==
    /\ caller = "started"
    /\ Profile \in sessions /\ ~reconnected
    /\ allow_reconnect' = FALSE
    /\ stop_event' = TRUE
    /\ stopLog' = <<Event(IF ThreadFinished THEN "stop_on_finished" ELSE "stop_on_live", "", "", 0),
                    Event("status_changed", "", "Disconnecting", 0)>>
    /\ caller' = "stop_poll"
    /\ UNCHANGED <<pc, teRet, tePid, joined, auto_reconnect, killable, procVars,
                   threadLocals, routeVars, signalVars, configVars, race, bcall, scan, attemptVars, profileVars, sessions, disc_queue,
                   reconnected>>

\* stop, lines 328-336: a subprocess that poll() finds running is handed to
\* _terminate_entry; poll() reaps one that has exited.
StopPoll ==
    /\ caller = "stop_poll"
    /\ IF process # 0 /\ process = curPid /\ osProc = "running"
       THEN /\ tePid' = process
            /\ teRet' = "cleanup_tracked"
            /\ caller' = "terminate_entry"
            /\ stopLog' = Append(stopLog, Event("poll_running", "", "", process))
            /\ UNCHANGED osProc
       ELSE /\ osProc' = IF process # 0 /\ process = curPid /\ osProc = "zombie"
                         THEN "reaped" ELSE osProc
            /\ caller' = "cleanup_tracked"
            /\ UNCHANGED <<tePid, teRet, stopLog>>
    /\ UNCHANGED <<pc, joined, flagVars, process, curPid, active_processes, threadLocals,
                   routeVars, signalVars, configVars, race, bcall, scan, attemptVars, profileVars, sessions, disc_queue, reconnected>>

\* _terminate_entry, lines 185-194: a pid that no longer exists is only
\* unregistered; otherwise SIGTERM goes to the group, and to the pid when the
\* group was not reached.
TerminateEntry ==
    /\ caller = "terminate_entry"
    /\ IF ~PidExists(tePid)
       THEN /\ active_processes' = UnregisterProcess(active_processes, tePid)
            /\ caller' = teRet
            /\ UNCHANGED <<osProc, stopLog>>
       ELSE /\ osProc' = Signalled(osProc)
            /\ stopLog' = stopLog \o TerminateSignals(tePid)
            /\ caller' = "terminate_wait"
            /\ UNCHANGED active_processes
    /\ UNCHANGED <<pc, teRet, tePid, joined, flagVars, process, curPid, threadLocals,
                   routeVars, signalVars, configVars, race, bcall, scan, attemptVars, profileVars, sessions, disc_queue, reconnected>>

\* _terminate_entry escalating whatever _wait_for_exit returned.
EscalatesAlways(exited) == TRUE

\* _terminate_entry, line 195: SIGKILL follows when _wait_for_exit(pid, 10)
\* returned False.
Escalates(exited) == ~exited

\* What the operating system holds for a pid: the state of the subprocess, or
\* "none" for a pid that is not in the process table.
ProcState(p) == IF p # 0 /\ p = curPid THEN osProc ELSE "none"

\* _wait_for_exit, lines 72-78: returns once the pid is gone or the deadline
\* of 10 or 5 seconds has passed.  A child that has exited is polled by its
\* supervisor thread within a few statements (process.poll() of the read loop,
\* process.wait() after it), so the deadline does not pass on a zombie.
WaitForExitReturns(p) == ProcState(p) # "zombie"

\* _terminate_entry, lines 195-200: after the grace period SIGKILL is sent to a
\* pid that still exists.  The log keeps what the process table held for the
\* pid when _wait_for_exit returned.
TerminateWait ==
    /\ caller = "terminate_wait"
    /\ WaitForExitReturns(tePid)
    /\ osProc' = IF Escalates(~PidExists(tePid)) THEN Signalled(osProc) ELSE osProc
    /\ stopLog' = Append(stopLog, Event("wait_for_exit", "", ProcState(tePid), tePid))
                      \o (IF Escalates(~PidExists(tePid)) THEN KillSignals(tePid) ELSE <<>>)
    /\ caller' = "terminate_unregister"
    /\ UNCHANGED <<pc, teRet, tePid, joined, flagVars, process, curPid, active_processes,
                   threadLocals, routeVars, signalVars, configVars, race, bcall, scan, attemptVars, profileVars, sessions, disc_queue,
                   reconnected>>

\* _terminate_entry, lines 199-202: the second _wait_for_exit when SIGKILL was
\* sent, then the registry.  The log keeps what the process table held for the
\* pid and what became of its registry entry.
TerminateUnregister ==
    /\ caller = "terminate_unregister"
    /\ WaitForExitReturns(tePid)
    /\ active_processes' = IF PidExists(tePid) THEN active_processes
                           ELSE UnregisterProcess(active_processes, tePid)
    /\ stopLog' = Append(stopLog, Event(IF tePid \in active_processes' THEN "tracked"
                                        ELSE IF tePid \in active_processes THEN "removed"
                                        ELSE "absent", "", ProcState(tePid), tePid))
    /\ caller' = teRet
    /\ UNCHANGED <<pc, teRet, tePid, joined, flagVars, process, curPid, osProc,
                   threadLocals, routeVars, signalVars, configVars, race, bcall, scan, attemptVars,
                   profileVars, sessions, disc_queue, reconnected>>

\* cleanup_profile_processes, lines 296-300: every pid tracked for the profile
\* goes through _terminate_entry (one supervisor tracks at most one).
CleanupTracked ==
    /\ caller = "cleanup_tracked"
    /\ IF active_processes # {}
       THEN /\ tePid' = CHOOSE p \in active_processes : TRUE
            /\ teRet' = "signature_matches"
            /\ caller' = "terminate_entry"
       ELSE /\ caller' = "signature_matches"
            /\ UNCHANGED <<tePid, teRet>>
    /\ UNCHANGED <<pc, joined, flagVars, procVars, threadLocals, routeVars, signalVars, configVars, race, bcall, scan, attemptVars, profileVars, windowVars>>

\* _terminate_signature_matches, lines 262-286: an untracked running process
\* whose command line carries the profile's tokens is terminated; `visible`
\* is whether the scan of the OS process list sees such a process.
SignatureMatches(visible) ==
    /\ caller = "signature_matches"
    /\ IF visible /\ osProc = "running" /\ curPid \notin active_processes
       THEN /\ tePid' = curPid
            /\ teRet' = "stop_routes"
            /\ caller' = "terminate_entry"
       ELSE /\ caller' = "stop_routes"
            /\ UNCHANGED <<tePid, teRet>>
    /\ UNCHANGED <<pc, joined, flagVars, procVars, threadLocals, routeVars, signalVars, configVars, race, bcall, scan, attemptVars, profileVars, windowVars>>

\* stop, lines 343-345: route cleanup for the profile, and the interface name
\* is forgotten.
StopRoutes ==
    /\ caller = "stop_routes"
    /\ Cleanup(Profile, {})
    /\ interface_name' = NoIface
    /\ stopLog' = Append(stopLog, Event("route_cleanup", "", Profile, 0))
    /\ caller' = "join"
    /\ UNCHANGED <<pc, teRet, tePid, joined, flagVars, procVars, threadLocals, signalVars, configVars, race, bcall, scan,
                   failure, connects, connected_iface, profileVars, sessions, disc_queue,
                   reconnected>>

\* The supervisor thread cannot finish within the wait of the caller: it is
\* blocked in process.wait() on a running subprocess.
ThreadBlocked == pc = "proc_wait" /\ osProc = "running"

\* MainWindow._disconnect_profile, lines 304-310: session.wait(5000) returns
\* when the thread has finished or when the five seconds are over; the session
\* is then dropped.
DisconnectReturns ==
    /\ caller = "join"
    /\ pc = "done" \/ ThreadBlocked
    /\ joined' = (pc = "done")
    /\ sessions' = sessions \ {Profile}
    /\ ClearIfLast(sessions \ {Profile})
    /\ caller' = "disconnected"
    /\ UNCHANGED <<pc, teRet, tePid, flagVars, procVars, threadLocals, routeVars, configVars, race, bcall, scan, attemptVars,
                   profileVars, disc_queue, reconnected, stopLog>>

\* The main window is in its event loop, not inside a handler.
WindowIdle == caller \in {"started", "disconnected"}

\* Where the supervisor thread is a few statements from the reconnect wait or
\* from the end of run(): a wait of a second for the thread does not return
\* while it is there.
FinishingSoon == {"unregister", "after_once", "run_end"}

\* MainWindow._on_disconnected, lines 318-324: the queued `disconnected`
\* signal of the supervisor thread drops the entry of the name; wait(1000)
\* returns when the thread has finished or after one second, and the cached
\* password is cleared with the last entry.
OnDisconnected ==
    /\ WindowIdle /\ disc_queue
    /\ pc \notin FinishingSoon
    /\ disc_queue' = FALSE
    /\ sessions' = sessions \ {Profile}
    /\ ClearIfLast(sessions \ {Profile})
    /\ UNCHANGED <<pc, callerVars, flagVars, procVars, threadLocals, routeVars, configVars, race, bcall, scan, attemptVars,
                   profileVars, reconnected, stopLog>>

\* MainWindow._connect_profile, lines 259-261 and 292-299, asked again for
\* the name: refused while the name has an entry, otherwise a new VPNSession
\* is created, entered and started.
ConnectAgain(response) ==
    /\ WindowIdle /\ ~reconnected
    /\ Profile \notin sessions
    /\ \E e \in {EnsurePasswordCached(CurrentManager, FALSE, response)} :
           /\ ~e.raised
           /\ SessionSetManager(e.pm)
    /\ sessions' = sessions \cup {Profile}
    /\ reconnected' = TRUE
    /\ UNCHANGED <<pc, callerVars, flagVars, procVars, threadLocals, routeVars, configVars, race, bcall, scan, attemptVars,
                   profileVars, disc_queue, stopLog>>

CallerStep ==
    \/ \E response \in SessionResponses : Start(response)
    \/ OnDisconnected
    \/ \E response \in SessionResponses : ConnectAgain(response)
    \/ StopSetFlags
    \/ StopPoll
    \/ TerminateEntry
    \/ TerminateWait
    \/ TerminateUnregister
    \/ CleanupTracked
    \/ \E visible \in BOOLEAN : SignatureMatches(visible)
    \/ StopRoutes
    \/ DisconnectReturns

SupervisorStep ==
    \/ RunLoopTest
    \/ \E response \in SessionResponses : BuildCommand(response)
    \/ StopCheck
    \/ \E found \in BOOLEAN : Popen(found)
    \/ AssignProcess
    \/ Register
    \/ ReadLoopStop
    \/ ReadLoopEnter
    \/ ReadEstablished
    \/ \E i \in TunnelIfaces : ReadInterface(i)
    \/ ReadExited
    \/ RouteCleanupOnExit
    \/ ProcWait
    \/ Unregister
    \/ AfterOnce
    \/ Countdown
    \/ RunEnd

\* ------------------------------------------------------------------------
\* Reconnect backoff (run)
\* ------------------------------------------------------------------------

RECURSIVE Pow2(_)
Pow2(n) == IF n = 0 THEN 1 ELSE 2 * Pow2(n - 1)

\* C1: while the user has not stopped the session, the wait announced after
\* the k-th consecutive attempt that never reached Connected is
\* min(5 * 2^(k-1), 60) seconds: 5, 10, 20, 40, 60, 60, ...
C1_WaitSequenceFromBase ==
    (pc = "countdown" /\ ~stop_event /\ failStreak >= 1)
        => announced = Min(BackoffBase * Pow2(failStreak - 1), BackoffCap)

\* C2: the backoff used for a reconnect wait is at least 5 and at most 60
\* seconds, whatever the sequence of successful and failed attempts.
C2_BackoffWithinBounds ==
    /\ BackoffBase <= backoff /\ backoff <= BackoffCap
    /\ pc = "countdown" => (announced = backoff /\ BackoffBase <= announced
                            /\ announced <= BackoffCap)

\* A wait at the cap that follows a wait at the cap.
C2_Witness ==
    pc = "countdown" /\ announced = BackoffCap /\ prevBackoff = BackoffCap /\ ~success

\* C3: after an attempt that reached Connected the next wait is exactly 5s,
\* whatever the backoff was before; after an attempt that never reached
\* Connected the backoff is not reset: the wait is above 5s and not below the
\* previous backoff.
C3_ResetOnlyAfterConnected ==
    pc = "countdown" =>
        IF success THEN announced = BackoffBase
        ELSE announced > BackoffBase /\ announced >= prevBackoff

\* A wait of 5s after a connected attempt that followed failed ones, and later
\* a failed attempt.
C3_Witness ==
    pc = "countdown" /\ success /\ prevBackoff > BackoffBase /\ announced = BackoffBase

\* ------------------------------------------------------------------------
\* connect followed by disconnect
\* ------------------------------------------------------------------------

\* C4: given that signals end the subprocess, once connect(name) followed by
\* disconnect(name) has returned, no AppliedRoute is recorded for the session,
\* the registry holds no process of the profile and no subprocess launched by
\* the supervisor is alive.
C4_DisconnectLeavesNothing ==
    (caller = "disconnected" /\ killable) =>
        /\ session_routes[Profile] = <<>>
        /\ active_processes = {}
        /\ osProc # "running"

Next == CallerStep \/ SupervisorStep \/ ProcessExits

Spec == Init /\ [][Next]_vars

\* ------------------------------------------------------------------------
\* RouteManager against the kernel table
\* ------------------------------------------------------------------------

InitRoute ==
    /\ SessionIdle
    /\ ConfigIdle
    /\ auto_reconnect = FALSE
    /\ killable = TRUE
    /\ RouteInit
    /\ SignalIdle

RouteApply ==
    \E sid \in Sessions, targets \in TargetLists, hint \in TunnelIfaces \cup {NoIface},
       appears \in BOOLEAN :
        /\ hint \in {NoIface, IfaceOf(sid)}
        /\ appears => IfaceOf(sid) \notin up_ifaces
        /\ ApplyRoutes(sid, targets, hint, appears, {})
        /\ UNCHANGED <<sessionVars, signalVars>>

RouteCleanup ==
    \E sid \in Sessions :
        /\ Cleanup(sid, {})
        /\ UNCHANGED <<sessionVars, signalVars>>

InterfaceAppears ==
    \E i \in TunnelIfaces : IfaceUp(i) /\ UNCHANGED <<sessionVars, signalVars>>

InterfaceGoes ==
    \E i \in TunnelIfaces : IfaceDown(i) /\ UNCHANGED <<sessionVars, signalVars>>

NextRoute == RouteApply \/ RouteCleanup \/ InterfaceAppears \/ InterfaceGoes

SpecRoute == InitRoute /\ [][NextRoute]_vars

\* ------------------------------------------------------------------------
\* apply_routes and cleanup
\* ------------------------------------------------------------------------

Recorded(sid, d) ==
    {j \in 1..Len(session_routes[sid]) : session_routes[sid][j].destination = d}

IsInstall(c) == c.action \in {"add", "replace"}

\* C5: after apply_routes of a list of valid CIDRs, every distinct normalized
\* destination has exactly one recorded AppliedRoute and exactly one kernel
\* route via the tunnel interface; after the cleanup that follows, no route of
\* those destinations goes via the tunnel interface and cleanup has installed
\* none via it.
C5_OneOverridePerDestination ==
    /\ lastOp.op = "apply" =>
           \A d \in lastOp.dests :
               /\ Cardinality(Recorded(lastOp.sid, d)) = 1
               /\ Cardinality({r \in RoutesTo(kernel, d) : r.dev = lastOp.iface}) = 1
    /\ lastOp.op = "cleanup" =>
           /\ \A r \in kernel : r.dev # lastOp.iface
           /\ \A i \in 1..Len(cmdLog) : IsInstall(cmdLog[i]) => cmdLog[i].dev # lastOp.iface

\* C6: a cleanup of a session that was cleaned before, with no apply in
\* between, issues no command and leaves the kernel table, the session routes
\* and the pending restorations as they were.
C6_CleanupIdempotent ==
    (lastOp.op = "cleanup" /\ lastOp.repeat) =>
        /\ cmdLog = <<>>
        /\ lastOp.prior = [k |-> kernel, sr |-> session_routes, pr |-> pending_restores]

\* A repeated cleanup of a session whose first cleanup issued commands, while
\* the kernel table is not empty.
C6_Witness ==
    /\ lastOp.op = "cleanup" /\ lastOp.repeat
    /\ cleaned[lastOp.sid] = "worked"
    /\ kernel # {}

\* C7: when exactly one route to a destination existed before apply_routes and
\* no other session held the destination, the cleanup that follows the apply
\* issues the delete of the override and a `replace` with the destination, via,
\* dev and metric of the original, and the kernel routes to the destination
\* are the original one again.
C7_RestorationRoundTrip ==
    lastOp.op = "cleanup" =>
        \A d \in lastOp.dests :
            (Cardinality(RoutesTo(lastOp.before, d)) = 1 /\ d \notin lastOp.held) =>
                LET original == CHOOSE r \in RoutesTo(lastOp.before, d) : TRUE
                    family == ResolveTarget(d).family
                IN  /\ \E i \in 1..Len(cmdLog) :
                           cmdLog[i] = BuildRouteCommand("del", d, lastOp.iface, family, "")
                    /\ \E i \in 1..Len(cmdLog) :
                           cmdLog[i] = RestoreCommand(ParseRouteLine(original), family)
                    /\ RoutesTo(kernel, d) = {original}

\* ------------------------------------------------------------------------
\* Signals with escalation
\* ------------------------------------------------------------------------

InitSignal ==
    /\ SessionIdle
    /\ ConfigIdle
    /\ auto_reconnect = FALSE
    /\ killable = TRUE
    /\ RouteIdle
    /\ pkexec_path \in BOOLEAN
    /\ sudo_path \in BOOLEAN
    /\ cached_password = ""
    /\ cache_allowed = FALSE
    /\ sig = NoSignal
    /\ priv = NoCall
    /\ forced = FALSE

SignalGroup ==
    \E pgid \in Pids \cup {NoPgid}, s \in Signals, outcome \in KillOutcomes,
       response \in Responses, spawn \in SpawnOutcomes, code \in ExitCodes :
        /\ SendSignalGroup(pgid, s, outcome, response, spawn, code)
        /\ UNCHANGED <<sessionVars, routeVars>>

SignalPid ==
    \E pid \in Pids, s \in Signals, outcome \in KillOutcomes,
       response \in Responses, spawn \in SpawnOutcomes, code \in ExitCodes :
        /\ SendSignalPid(pid, s, outcome, response, spawn, code)
        /\ UNCHANGED <<sessionVars, routeVars>>

Forget == ForgetPassword /\ UNCHANGED <<sessionVars, routeVars>>

EnsureCachedCall ==
    \E force_allow \in BOOLEAN, response \in Responses :
        /\ EnsureCached(force_allow, response)
        /\ UNCHANGED <<sessionVars, routeVars>>

BuildElevatedCall ==
    \E base_command \in BaseCommands, response \in Responses :
        /\ BuildElevated(base_command, response)
        /\ UNCHANGED <<sessionVars, routeVars>>

NextSignal == SignalGroup \/ SignalPid \/ Forget \/ EnsureCachedCall \/ BuildElevatedCall

SpecSignal == InitSignal /\ [][NextSignal]_vars

Succeeded(run) == run.outcome = "returned" /\ run.code = 0

\* C8: a call of _send_signal_group whose unprivileged signal fails with a
\* permission error makes exactly one run_privileged call and returns True when
\* the elevated kill succeeded and False when it did not; a call whose
\* unprivileged signal succeeds returns True and runs no elevated command.
C8_GroupEscalatesExactlyOnce ==
    sig.fn = "_send_signal_group" =>
        /\ sig.unprivileged = "PermissionError" =>
               /\ sig.calls = 1
               /\ sig.result = IF Succeeded(sig.run) THEN "True" ELSE "False"
        /\ sig.unprivileged = "ok" =>
               /\ sig.calls = 0 /\ sig.run = NoRun
               /\ sig.result = "True"

\* C9: a signal to a pid or a process group that no longer exists returns
\* True, makes no run_privileged call, starts no elevated command and leaves
\* the privilege manager as it was.
C9_MissingTargetIsSuccess ==
    sig.unprivileged = "ProcessLookupError" =>
        /\ sig.result = "True"
        /\ sig.calls = 0
        /\ sig.run = NoRun
        /\ ~sig.changed

\* A process group that no longer exists, signalled while an escalation would
\* have had to ask for the sudo password.
C9_Witness ==
    /\ sig.fn = "_send_signal_group" /\ sig.unprivileged = "ProcessLookupError"
    /\ sig.result = "True"
    /\ ~pkexec_path /\ sudo_path /\ cached_password = ""

\* C10: a call of _send_signal_group or _send_signal_pid returns True or
\* False, never raises, and returns False for every failure of the
\* unprivileged signal and of the escalated command.
C10_SignalsNeverRaise ==
    sig.fn # "none" =>
        /\ sig.result \in {"True", "False"}
        /\ (sig.unprivileged = "OSError") => sig.result = "False"
        /\ (sig.unprivileged = "PermissionError" /\ ~Succeeded(sig.run)) => sig.result = "False"

\* ------------------------------------------------------------------------
\* The cached sudo password
\* ------------------------------------------------------------------------

\* C11: once ensure_password_cached(force_allow=True) has completed with a
\* password obtained, every build_command call until clear_cached_password
\* returns [sudo, -S, *base] with the cached password, raises nothing, does
\* not call the password provider and leaves the cache as it was.
C11_ForcedCacheIsReused ==
    (forced /\ priv.fn = "build_command") =>
        /\ ~priv.raised /\ ~priv.prompted
        /\ priv.argv = <<"sudo", "-S">> \o priv.base
        /\ priv.password = priv.before.cached_password /\ priv.password # ""
        /\ CurrentManager = priv.before

\* A build_command answered from the cache that a forced
\* ensure_password_cached filled.
C11_Witness ==
    /\ forced /\ priv.fn = "build_command"
    /\ priv.argv = <<"sudo", "-S", "ip", "route", "flush", "cache">>
    /\ priv.password = "secret"

\* C12: ensure_password_cached called while a password is cached does not
\* call the provider, raises nothing and keeps the password; with
\* force_allow=True the cache is reusable afterwards, with force_allow=False
\* the permission to reuse is what it was.
C12_EnsureIdempotent ==
    (priv.fn = "ensure_password_cached" /\ priv.before.cached_password # "") =>
        /\ ~priv.prompted /\ ~priv.raised
        /\ cached_password = priv.before.cached_password
        /\ cache_allowed = (priv.before.cache_allowed \/ priv.force_allow)

\* ensure_password_cached(force_allow=False) on a cached password that may be
\* reused: the permission is kept.
C12_Witness ==
    /\ priv.fn = "ensure_password_cached" /\ ~priv.force_allow
    /\ priv.before.cached_password # "" /\ priv.before.cache_allowed
    /\ cache_allowed

\* C13: with no pkexec and no cached password, a build_command call whose
\* password prompt is declined raises the cancellation error and leaves the
\* privilege manager as it was: no password cached, the permission to reuse
\* not granted.
C13_DeclinedPromptChangesNothing ==
    (priv.fn = "build_command" /\ ~priv.before.pkexec_path
     /\ priv.before.cached_password = "" /\ priv.prompted /\ priv.error = "cancelled") =>
        /\ priv.raised
        /\ priv.argv = <<>>
        /\ cached_password = ""
        /\ cache_allowed = priv.before.cache_allowed
        /\ ~priv.before.cache_allowed => ~cache_allowed

\* A declined prompt of build_command on a manager that never cached.
C13_Witness ==
    /\ priv.fn = "build_command" /\ priv.raised /\ priv.error = "cancelled"
    /\ ~pkexec_path /\ sudo_path /\ cached_password = "" /\ ~cache_allowed

\* ------------------------------------------------------------------------
\* The launch command of a profile
\* ------------------------------------------------------------------------

SessionIdleBut(p) ==
    /\ pc = "idle" /\ caller = "init" /\ teRet = "none" /\ tePid = 0
    /\ stop_event = FALSE /\ allow_reconnect = TRUE
    /\ process = 0 /\ curPid = 0 /\ osProc = "none" /\ active_processes = {}
    /\ connected_once = FALSE /\ success = FALSE
    /\ backoff = BackoffBase /\ attempts = 0 /\ failStreak = 0 /\ announced = 0
    /\ prevBackoff = BackoffBase /\ joined = FALSE
    /\ failure = "" /\ connects = 0 /\ interface_name = NoIface /\ connected_iface = NoIface
    /\ race = RaceIdle /\ bcall = BcIdle /\ scan = ScanIdle
    /\ profile = p /\ launch = NoLaunch
    /\ WindowInit

InitCommand ==
    /\ \E p \in Profiles : SessionIdleBut(p)
    /\ ConfigIdle
    /\ auto_reconnect = FALSE
    /\ killable = TRUE
    /\ RouteIdle
    /\ SignalIdle

otherThanProfile ==
    <<pc, caller, teRet, tePid, stop_event, allow_reconnect, auto_reconnect, process,
      curPid, osProc, killable, active_processes, connected_once, success, backoff,
      attempts, failStreak, announced, prevBackoff, joined, routeVars, signalVars,
      windowVars, configVars, attemptVars, race, bcall, scan>>

SessionCommand == SessionBuildsCommand /\ UNCHANGED otherThanProfile

BuilderCommand == BuilderBuildsCommand /\ UNCHANGED otherThanProfile

NextCommand == SessionCommand \/ BuilderCommand

SpecCommand == InitCommand /\ [][NextCommand]_vars

\* The option the launch command carries for a profile.
OptionsFor(p) ==
    IF Lower(p.auth_type) = "saml"
    THEN IF p.saml_port = "" THEN <<<<"--saml-login">>>>
         ELSE <<<<"--saml-login=", p.saml_port>>>>
    ELSE IF p.username = "" THEN <<>>
         ELSE <<<<"--username=", p.username>>>>

\* C14: the launch command is [openfortivpn, "host:port"] followed by
\* --saml-login for SAML without a SAML port, --saml-login=<port> for SAML with
\* one, --username=<user> for password mode with a username and nothing for
\* password mode without; and for a profile whose host carries no embedded
\* port _build_command gives the argv build_openfortivpn_command gives.
C14_LaunchCommand ==
    /\ launch.fn # "none" =>
           /\ Len(launch.argv) = 2 + Len(OptionsFor(launch.before))
           /\ launch.argv[1] = <<"openfortivpn">>
           /\ launch.argv[2] = HostPort(profile.host, profile.port)
           /\ SubSeq(launch.argv, 3, Len(launch.argv)) = OptionsFor(launch.before)
           /\ Len(launch.argv) <= 3
    /\ (launch.fn = "_build_command" /\ NormalizedHostPort(launch.before) = launch.before) =>
           launch.argv = BuildOpenfortivpnCommand(launch.before)

\* _build_command for a SAML profile written in capitals, with a SAML port and
\* a host that carries its own port.
C14_Witness ==
    /\ launch.fn = "_build_command"
    /\ launch.before.auth_type = "SAML" /\ launch.before.host = <<"vpn.example.com", "08443">>
    /\ launch.argv = <<<<"openfortivpn">>, <<"vpn.example.com", "8443">>, <<"--saml-login=", "8020">>>>

\* ------------------------------------------------------------------------
\* Address families
\* ------------------------------------------------------------------------

\* Commands the environment may make fail during one route operation.
FamilyFaults == {{}, {"add"}, {"add", "replace"}, {"exists"}, {"exists_once"}}

\* What the environment may do to the commands of one cleanup: an exit status
\* other than 0 from `ip route del` or from `ip route replace`, or
\* _run_privileged raising on a del or on a replace.
CleanupFaults == {{}, {"del"}, {"replace"}, {"raise_del"}, {"raise_replace"}}

InitFamily ==
    /\ SessionIdle
    /\ ConfigIdle
    /\ auto_reconnect = FALSE
    /\ killable = TRUE
    /\ kernel \in SUBSET FamilyOriginalRoutes
    /\ kernel0 = kernel
    /\ up_ifaces = {}
    /\ session_routes = [s \in Sessions |-> <<>>]
    /\ pending_restores = [s \in Sessions |-> <<>>]
    /\ cmdLog = <<>>
    /\ lastOp = NoOp
    /\ cleaned = [s \in Sessions |-> "no"]
    /\ applies = 0
    /\ SignalIdle

FamilyApply ==
    \E sid \in Sessions, targets \in FamilyTargetLists, faults \in FamilyFaults :
        /\ ApplyRoutes(sid, targets, IfaceOf(sid), IfaceOf(sid) \notin up_ifaces, faults)
        /\ UNCHANGED <<sessionVars, signalVars>>

FamilyCleanup ==
    \E sid \in Sessions, faults \in CleanupFaults :
        /\ Cleanup(sid, faults)
        /\ UNCHANGED <<sessionVars, signalVars>>

NextFamily == FamilyApply \/ FamilyCleanup

SpecFamily == InitFamily /\ [][NextFamily]_vars

\* The family of a destination, read off its text.
FamilyOf(d) == IF d = "fd00::/64" THEN 6 ELSE 4

\* C15: every show, del, add and replace command of apply_routes and cleanup
\* carries -6 exactly when its destination is of family 6, every flush carries
\* the flag of a route command issued before it in the same operation, an
\* operation whose destinations are all of one family issues only commands of
\* that family, and every recorded AppliedRoute and pending restoration has
\* the family of its destination.
C15_FamilyFlag ==
    /\ \A i \in 1..Len(cmdLog) :
           IF cmdLog[i].action = "flush"
           THEN \E j \in 1..(i - 1) :
                    cmdLog[j].action # "flush" /\ cmdLog[j].inet6 = cmdLog[i].inet6
           ELSE cmdLog[i].inet6 = (FamilyOf(cmdLog[i].destination) = 6)
    /\ \A f \in {4, 6} :
           (lastOp.op = "apply" /\ \A d \in lastOp.dests : FamilyOf(d) = f) =>
               \A i \in 1..Len(cmdLog) : cmdLog[i].inet6 = (f = 6)
    /\ \A s \in Sessions :
           /\ \A j \in 1..Len(session_routes[s]) :
                  session_routes[s][j].family = FamilyOf(session_routes[s][j].destination)
           /\ \A j \in 1..Len(pending_restores[s]) :
                  pending_restores[s][j].family = FamilyOf(pending_restores[s][j].entry.destination)

\* A cleanup that deleted an IPv6 override, put back the IPv6 route it had
\* replaced and flushed the IPv6 cache, and deleted an IPv4 override, after
\* the apply_routes that ran show, del and add for both.
C15_Witness ==
    /\ lastOp.op = "cleanup"
    /\ lastOp.dests = {"10.0.0.2/32", "fd00::/64"}
    /\ lastOp.before = FamilyOriginalRoutes
    /\ \E i, j, k, l \in 1..Len(cmdLog) :
           /\ i < j /\ j < k
           /\ cmdLog[i].action = "del" /\ cmdLog[i].destination = "fd00::/64" /\ cmdLog[i].inet6
           /\ cmdLog[j].action = "replace" /\ cmdLog[j].inet6 /\ cmdLog[j].via = "fe80::1"
           /\ cmdLog[k].action = "flush" /\ cmdLog[k].inet6
           /\ cmdLog[l].action = "del" /\ cmdLog[l].destination = "10.0.0.2/32" /\ ~cmdLog[l].inet6

\* C16: apply_routes issues no command for, and records no AppliedRoute of, a
\* host target that is an address assigned to a ppp/tun interface.
C16_EndpointTargetsIgnored ==
    lastOp.op = "apply" =>
        \A i \in up_ifaces \cap TunnelIfaces : \A a \in InterfaceAddresses(i) :
            LET d == NormalizeDestination(a)
            IN  /\ \A j \in 1..Len(cmdLog) : cmdLog[j].destination # d
                /\ \A sid \in Sessions : Recorded(sid, d) = {}

\* ------------------------------------------------------------------------
\* stop() and the sessions of the main window
\* ------------------------------------------------------------------------

StopEvents(ev) == {i \in 1..Len(stopLog) : stopLog[i].ev = ev}

\* C17: a stop() that found the subprocess running, where signals end it, has
\* handed exactly one signal to the privilege manager, SIGINT for the pid of
\* the subprocess, the subprocess is no longer running, and route cleanup was
\* invoked exactly once for the profile name.
C17_StopSignalsOnce ==
    (caller = "join" /\ killable /\ StopEvents("poll_running") # {}) =>
        /\ Cardinality(StopEvents("run_privileged")) = 1
        /\ \A i \in StopEvents("run_privileged") :
               /\ stopLog[i].signal = "SIGINT"
               /\ stopLog[i].target = "pid"
               /\ stopLog[i].pid = curPid
        /\ osProc # "running"
        /\ Cardinality(StopEvents("route_cleanup")) = 1
        /\ \A i \in StopEvents("route_cleanup") : stopLog[i].target = Profile

\* C19: no further supervisor is started for the profile name while the
\* thread of the first one has not finished.
C19_OneSupervisorPerName ==
    reconnected => pc \in {"idle", "done"}

\* C20: a stop() of a session whose thread had finished and which had no
\* subprocess emitted no status, handed no signal to the privilege manager and
\* issued no route command.
C20_StopOnStoppedIsNoOp ==
    (caller \in {"join", "disconnected"} /\ StopEvents("stop_on_finished") # {}) =>
        /\ StopEvents("status_changed") = {}
        /\ StopEvents("run_privileged") = {}
        /\ cmdLog = <<>>

\* ------------------------------------------------------------------------
\* ConfigManager calls
\* ------------------------------------------------------------------------

otherThanConfig == <<supervisorVars, routeVars, signalVars>>

InitConfig ==
    /\ SessionIdle
    /\ auto_reconnect = FALSE
    /\ killable = TRUE
    /\ ConfigInit
    /\ RouteIdle
    /\ SignalIdle

ConfigEnter ==
    \E t \in CfgThreads, op \in CfgOps, name \in CfgNames, value \in CfgValues :
        CfgEnter(t, op, IF op = "save" THEN "" ELSE name,
                 IF op = "upsert" THEN value ELSE CfgNone)
        /\ UNCHANGED otherThanConfig

ConfigStep(t) ==
    (CfgAcquire(t) \/ CfgBody(t) \/ CfgSaveAcquire(t) \/ CfgSaveBody(t))
        /\ UNCHANGED otherThanConfig

ConfigSteps == \E t \in CfgThreads : ConfigStep(t)

NextConfig == ConfigEnter \/ ConfigSteps

SpecConfig == InitConfig /\ [][NextConfig]_vars

\* A thread inside a call can take its next step, or waits for the lock while
\* the thread that holds it can take its next step.
CfgCanProceed(t) ==
    \/ ENABLED ConfigStep(t)
    \/ \E u \in CfgThreads \ {t} : cfg_lock = u /\ ENABLED ConfigStep(u)

\* C18: a thread inside upsert or remove is never stuck on the lock of the
\* manager; once upsert(profile) has returned get(name) gives the profile, and
\* once remove(name) has returned get(name) gives None.
C18_UpsertAndRemoveTerminate ==
    \A t \in CfgThreads :
        /\ (cfg[t].op \in {"upsert", "remove"} /\ cfg[t].pc \notin {"idle", "returned"})
               => CfgCanProceed(t)
        /\ (cfg[t].op = "upsert" /\ cfg[t].pc = "returned") => cfg[t].result = cfg[t].value
        /\ (cfg[t].op = "remove" /\ cfg[t].pc = "returned") => cfg[t].result = CfgNone

\* C21: a cleanup is best-effort: whatever fails, no exception leaves the
\* call, the delete of every recorded route and the replace of every pending
\* restoration are attempted, and the session has no entry left in either
\* table of the RouteManager.
C21_CleanupBestEffort ==
    lastOp.op = "cleanup" =>
        /\ ~lastOp.raised
        /\ lastOp.attempted
        /\ session_routes[lastOp.sid] = <<>>
        /\ pending_restores[lastOp.sid] = <<>>

\* VPNProfile.routes of the profile of the session.
ProfileRoutes == <<"10.0.0.0/24">>

C23_FirstInterfaceWins ==
    [][(interface_name # NoIface /\ interface_name' # NoIface)
            => interface_name' = interface_name]_vars

\* C24: after an attempt that found no openfortivpn binary the supervisor
\* only ends: it neither waits to reconnect nor starts another attempt.
C24_BinaryMissingEndsRun ==
    failure = "binary_missing" => pc \in {"after_once", "run_end", "done"}

C26_ConnectedOnceAndNotAfterStop ==
    [][connects' > connects => (connects = 0 /\ ~stop_event)]_vars

\* C27: when the output loop of an attempt ends, with no stop requested,
\* that reached Connected with the interface known, and the profile has
\* routes, apply_routes of the RouteManager has been called before the
\* cleanup of the attempt.
C27_RoutesAppliedAfterConnected ==
    (pc = "route_cleanup" /\ ~stop_event /\ connected_once /\ connected_iface # NoIface
        /\ ProfileRoutes # <<>>) => applies > 0

\* C28: neither _run_once nor stop() calls RouteManager.cleanup while the
\* subprocess of the session is running.
C28_CleanupAfterProcessExit ==
    [][((pc = "route_cleanup" /\ pc' = "proc_wait")
            \/ (caller = "stop_routes" /\ caller' = "join"))
        => osProc # "running"]_vars

\* C30: once stop() has set the stop flag the supervisor starts no
\* subprocess and enters no reconnect wait.
C30_NoSpawnAfterStop ==
    [][stop_event => /\ ~(osProc # "running" /\ osProc' = "running")
                     /\ ~(pc # "countdown" /\ pc' = "countdown")]_vars

\* ------------------------------------------------------------------------
\* apply_routes on the caller's thread against cleanup
\* ------------------------------------------------------------------------

otherThanRace ==
    <<profileVars, windowVars, attemptVars, bcall, scan, pc, caller, teRet, tePid, stop_event,
      allow_reconnect, auto_reconnect, process, curPid, osProc, killable, active_processes,
      connected_once, success, backoff, attempts, failStreak, announced, prevBackoff,
      joined, configVars, signalVars>>

InitRace ==
    /\ SessionIdle
    /\ ConfigIdle
    /\ auto_reconnect = FALSE
    /\ killable = TRUE
    /\ RouteInit
    /\ SignalIdle

\* The tunnel of a session comes up: its subprocess runs and _handle_output
\* has stored the interface name.
RaceConnect(sid) ==
    /\ race[sid].status = "idle"
    /\ race' = [race EXCEPT ![sid].status = "connected"]
    /\ up_ifaces' = up_ifaces \cup {IfaceOf(sid)}
    /\ lastOp' = NoOp
    /\ UNCHANGED <<kernel, session_routes, pending_restores, cmdLog, cleaned, applies, kernel0>>
    /\ UNCHANGED otherThanRace

\* VPNSession.apply_routes, lines 513-532, on the caller's thread: with the
\* subprocess running and the interface known, RouteManager.apply_routes
\* runs its commands (lines 241-403); the list it has built is not recorded
\* yet.
RaceApplyStart(sid, targets) ==
    /\ race[sid].status = "connected" /\ ~race[sid].applying
    /\ targets # <<>>
    /\ applies < MaxApplies
    /\ applies' = applies + 1 /\ kernel0' = kernel0
    /\ \E st \in {ApplyTargets(ApplyStart(kernel, session_routes, pending_restores),
                                 up_ifaces, {}, sid, targets, IfaceOf(sid))} :
           /\ kernel' = st.k
           /\ pending_restores' = st.pr
           /\ cmdLog' = st.log
           /\ race' = [race EXCEPT ![sid].applying = TRUE, ![sid].result = st.applied]
    /\ cleaned' = [cleaned EXCEPT ![sid] = "no"]
    /\ lastOp' = NoOp
    /\ UNCHANGED <<up_ifaces, session_routes>>
    /\ UNCHANGED otherThanRace

\* RouteManager.apply_routes, lines 404-405: the applied routes are recorded
\* for the session.
RaceApplyFinish(sid) ==
    /\ race[sid].applying
    /\ session_routes' = IF race[sid].result # <<>>
                          THEN [session_routes EXCEPT ![sid] = race[sid].result]
                          ELSE session_routes
    /\ race' = [race EXCEPT ![sid].applying = FALSE, ![sid].result = <<>>]
    /\ lastOp' = NoOp
    /\ UNCHANGED <<kernel, up_ifaces, pending_restores, cmdLog, cleaned, applies, kernel0>>
    /\ UNCHANGED otherThanRace

\* stop, lines 324-345, or the end of _run_once and run, lines 434-447 and
\* 363: the subprocess is gone, RouteManager.cleanup runs for the session
\* and the session is Stopped.
RaceStop(sid) ==
    /\ race[sid].status = "connected"
    /\ Cleanup(sid, {})
    /\ race' = [race EXCEPT ![sid].status = "stopped"]
    /\ UNCHANGED otherThanRace

NextRace ==
    \/ \E sid \in Sessions : RaceConnect(sid)
    \/ \E sid \in Sessions, targets \in TargetLists : RaceApplyStart(sid, targets)
    \/ \E sid \in Sessions : RaceApplyFinish(sid)
    \/ \E sid \in Sessions : RaceStop(sid)

SpecRace == InitRace /\ [][NextRace]_vars

\* C29: once a session is Stopped and no apply_routes call of it is in
\* flight, the RouteManager holds no AppliedRoute entries for it.
C29_StoppedSessionHoldsNoRoutes ==
    \A sid \in Sessions :
        (race[sid].status = "stopped" /\ ~race[sid].applying) => session_routes[sid] = <<>>

\* ------------------------------------------------------------------------
\* The cached password and the permission to reuse it
\* ------------------------------------------------------------------------

\* C40: a build_command call made while a password is cached returns
\* [sudo, -S, *base] with that password, raises nothing, does not call the
\* password provider and leaves the cache and the permission to reuse as
\* they were, whether reuse is allowed or not.
C40_CachedPasswordNeverReprompts ==
    (priv.fn = "build_command" /\ priv.before.cached_password # "") =>
        /\ ~priv.prompted /\ ~priv.raised
        /\ priv.argv = <<"sudo", "-S">> \o priv.base
        /\ priv.password = priv.before.cached_password
        /\ CurrentManager = priv.before

\* A build_command answered from a cached password that may not be reused.
C40_Witness ==
    /\ priv.fn = "build_command" /\ priv.before.cached_password = "secret"
    /\ ~priv.before.cache_allowed /\ ~cache_allowed
    /\ priv.password = "secret" /\ ~priv.prompted

\* ------------------------------------------------------------------------
\* Concurrent build_command calls
\* ------------------------------------------------------------------------

otherThanBcall ==
    <<profileVars, windowVars, attemptVars, race, scan, pc, caller, teRet, tePid, stop_event,
      allow_reconnect, auto_reconnect, process, curPid, osProc, killable, active_processes,
      connected_once, success, backoff, attempts, failStreak, announced, prevBackoff,
      joined, configVars, routeVars, sig, priv, forced>>

InitPrompt ==
    /\ SessionIdle
    /\ ConfigIdle
    /\ auto_reconnect = FALSE
    /\ killable = TRUE
    /\ RouteIdle
    /\ PrivilegeIdle

\* A `with self._lock` of a thread that does not hold the lock enters when no
\* other thread holds it.
LockAlwaysFree(lock, t) == TRUE

LockFree(lock, t) == lock = "free"

\* build_command, lines 53-61: the first `with self._lock` block.
BcFirst(t) ==
    /\ bcall.pc[t] = "idle"
    /\ LockFree(bcall.lock, t)
    /\ bcall' = IF pkexec_path
                 THEN [bcall EXCEPT !.pc[t] = "returned"]
                 ELSE IF ~sudo_path
                 THEN [bcall EXCEPT !.pc[t] = "raised"]
                 ELSE IF cached_password # "" /\ cache_allowed
                 THEN [bcall EXCEPT !.pc[t] = "returned", !.password[t] = cached_password]
                 ELSE [bcall EXCEPT !.pc[t] = "ensure"]
    /\ UNCHANGED privilegeVars
    /\ UNCHANGED otherThanBcall

\* build_command, line 63, and ensure_password_cached, lines 35-44: the lock
\* is taken, and with no password cached the provider is called while the
\* lock is held.
BcEnsure(t) ==
    /\ bcall.pc[t] = "ensure"
    /\ LockFree(bcall.lock, t)
    /\ bcall' = IF pkexec_path \/ ~sudo_path \/ cached_password # ""
                 THEN [bcall EXCEPT !.pc[t] = "final"]
                 ELSE [bcall EXCEPT !.pc[t] = "prompt", !.lock = t, !.prompts = @ + 1]
    /\ UNCHANGED privilegeVars
    /\ UNCHANGED otherThanBcall

\* ensure_password_cached, lines 44-49: the provider returns; a cancelled
\* prompt raises, an answer is cached; the lock is released.
BcPromptReturns(t, response) ==
    /\ bcall.pc[t] = "prompt"
    /\ \E e \in {EnsurePasswordCached(CurrentManager, FALSE, response)} :
           /\ SetManager(e.pm)
           /\ bcall' = [bcall EXCEPT !.pc[t] = IF e.raised THEN "raised" ELSE "final",
                                      !.lock = "free",
                                      !.first = IF @ # "none" THEN @
                                                ELSE IF e.raised THEN "cancelled"
                                                ELSE "answered"]
    /\ UNCHANGED otherThanBcall

\* build_command, lines 64-67: the last `with self._lock` block.
BcFinal(t) ==
    /\ bcall.pc[t] = "final"
    /\ LockFree(bcall.lock, t)
    /\ bcall' = IF cached_password = ""
                 THEN [bcall EXCEPT !.pc[t] = "raised"]
                 ELSE [bcall EXCEPT !.pc[t] = "returned", !.password[t] = cached_password]
    /\ UNCHANGED privilegeVars
    /\ UNCHANGED otherThanBcall

NextPrompt ==
    \/ \E t \in BcThreads : BcFirst(t)
    \/ \E t \in BcThreads : BcEnsure(t)
    \/ \E t \in BcThreads, response \in SessionResponses : BcPromptReturns(t, response)
    \/ \E t \in BcThreads : BcFinal(t)

SpecPrompt == InitPrompt /\ [][NextPrompt]_vars

\* C39: with no pkexec and nothing cached at the start, when the first prompt
\* is answered the provider is called once in total by all the build_command
\* calls, and every call that has returned carries the password of that
\* answer.
C39_OnePromptForConcurrentCalls ==
    (~pkexec_path /\ bcall.first = "answered") =>
        /\ bcall.prompts = 1
        /\ \A t \in BcThreads :
               /\ bcall.pc[t] # "raised"
               /\ bcall.pc[t] = "returned" => bcall.password[t] = cached_password
                                               /\ cached_password # ""

\* All three calls have returned the password, two of them after waiting for
\* the prompt of the first.
C39_Witness ==
    /\ ~pkexec_path /\ bcall.first = "answered" /\ bcall.prompts = 1
    /\ \A t \in BcThreads : bcall.pc[t] = "returned" /\ bcall.password[t] = "secret"

\* ---------------------------------------------------------------------------
\* _terminate_entry: escalation from SIGTERM to SIGKILL and the registry.

IsKill(i) == stopLog[i].ev = "run_privileged" /\ stopLog[i].signal = "SIGKILL"
IsTerm(i) == stopLog[i].ev = "run_privileged" /\ stopLog[i].signal = "SIGTERM"

\* The grace period of the SIGKILL at position i: the last wait_for_exit
\* before it.
GraceOf(i) == {j \in 1..(i - 1) : /\ stopLog[j].ev = "wait_for_exit"
                                  /\ \A k \in (j + 1)..(i - 1) : IsKill(k)}

\* psutil.pid_exists for what the process table held.
Existed(state) == state \in {"running", "zombie"}

C36_WitnessSpared ==
    /\ \E j \in StopEvents("wait_for_exit") : stopLog[j].target = "reaped"
    /\ \E i \in StopEvents("removed") : stopLog[i].target = "reaped"
    /\ ~\E i \in 1..Len(stopLog) : IsKill(i)

\* ---------------------------------------------------------------------------
\* cleanup restoring the captured entries of an override.

\* Whether a session other than sid has recorded the destination d.
WantedByOther(sr, sid, d) ==
    \E o \in Sessions \ {sid} : \E j \in 1..Len(sr[o]) :
        NormalizeDestination(sr[o][j].destination) = d

\* The step is cleanup(sid).
IsCleanupOf(sid) == lastOp'.op = "cleanup" /\ lastOp'.sid = sid

\* C33: a cleanup of a session whose override evicted n entries, the
\* destination wanted by no other session, hands a replace to _run_privileged
\* for each of the n captured entries, with the captured destination, via,
\* dev and metric.
C33_RestoresEveryRemoved ==
    [][\A sid \in Sessions : IsCleanupOf(sid) =>
           \A i \in 1..Len(session_routes[sid]) :
               LET route == session_routes[sid][i] IN
               ~WantedByOther(session_routes, sid, route.destination) =>
                   \A e \in 1..Len(route.removed) : \E n \in 1..Len(cmdLog') :
                       cmdLog'[n] = RestoreCommand(route.removed[e], route.family)]_vars

\* ---------------------------------------------------------------------------
\* Restorations that fail.

\* The kernel route a restore command installs when it succeeds.
RestoredRoute(c) ==
    [dst |-> c.destination, via |-> c.via, dev |-> c.dev, metric |-> MetricValue(c.metric)]

\* The pending restoration _restore_removed_routes queues for a restore
\* command that failed.
PendingOf(c) ==
    [family |-> IF c.inet6 THEN 6 ELSE 4,
     entry |-> [destination |-> c.destination, via |-> c.via, dev |-> c.dev,
                metric |-> c.metric]]

Queued(pr, sid, p) == \E n \in 1..Len(pr[sid]) : pr[sid][n] = p

\* The step is an apply_routes or a cleanup of sid that ran commands.
IsRouteOpOf(sid) == lastOp'.op \in {"apply", "cleanup"} /\ lastOp'.sid = sid

\* C34: after apply_routes or cleanup of a session, every restore it issued
\* has either put the captured route back or is queued as a pending
\* restoration of the session; and a cleanup issues the restore of every
\* pending restoration of its session, keeping queued those that failed.
C34_FailedRestoreStaysQueued ==
    [][\A sid \in Sessions :
         /\ IsRouteOpOf(sid) =>
                \A n \in 1..Len(cmdLog') :
                    cmdLog'[n].action = "replace" =>
                        \/ RestoredRoute(cmdLog'[n]) \in kernel'
                        \/ Queued(pending_restores', sid, PendingOf(cmdLog'[n]))
         /\ IsCleanupOf(sid) =>
                \A i \in 1..Len(pending_restores[sid]) :
                    /\ \E n \in 1..Len(cmdLog') :
                           cmdLog'[n] = RestoreCommand(pending_restores[sid][i].entry,
                                                       pending_restores[sid][i].family)
                    /\ \/ RestoredRoute(RestoreCommand(pending_restores[sid][i].entry,
                                                       pending_restores[sid][i].family))
                              \in kernel'
                       \/ Queued(pending_restores', sid, pending_restores[sid][i])]_vars

\* The half of C34 that apply_routes keeps: a restore that fails after a
\* failed add is queued for the session.
C34_ApplyQueuesFailedRestore ==
    [][\A sid \in Sessions :
         (lastOp'.op = "apply" /\ lastOp'.sid = sid) =>
             \A n \in 1..Len(cmdLog') :
                 cmdLog'[n].action = "replace" =>
                     \/ RestoredRoute(cmdLog'[n]) \in kernel'
                     \/ Queued(pending_restores', sid, PendingOf(cmdLog'[n]))]_vars

\* ---------------------------------------------------------------------------
\* apply_routes: the retry of the add.

\* The add commands handed to _run_privileged for one destination of the
\* target list.
AddsOf(it) ==
    {n \in it.first..it.last : cmdLog[n].action = "add" /\ cmdLog[n].destination = it.destination}

\* C35: for each destination of the target list apply_routes issues one add,
\* and a second one exactly when the first failed as a duplicate, never a
\* third; every destination is reached; when the last add failed, a restore
\* of every removed entry was issued and no AppliedRoute was recorded for the
\* destination, and when it succeeded exactly one was.
C35_RetryOnceThenRestore ==
    lastOp.op = "apply" =>
        /\ {lastOp.iters[i].destination : i \in 1..Len(lastOp.iters)} = lastOp.dests
        /\ \A i \in 1..Len(lastOp.iters) :
            LET it == lastOp.iters[i] IN
            /\ Cardinality(AddsOf(it)) = Len(it.adds)
            /\ Len(it.adds) \in {1, 2}
            /\ Len(it.adds) = 2 <=> it.adds[1] = "exists"
            /\ it.recorded = IF it.adds[Len(it.adds)] = "ok" THEN 1 ELSE 0
            /\ it.adds[Len(it.adds)] # "ok" =>
                   \A e \in 1..Len(it.removed) : \E n \in it.first..it.last :
                       /\ n > CHOOSE m \in AddsOf(it) : \A q \in AddsOf(it) : q <= m
                       /\ cmdLog[n] = RestoreCommand(it.removed[e], it.family)

\* The add failed twice as a duplicate after an entry was removed, and nothing
\* was recorded.
C35_Witness ==
    /\ lastOp.op = "apply"
    /\ \E i \in 1..Len(lastOp.iters) :
           /\ lastOp.iters[i].adds = <<"exists", "exists">>
           /\ lastOp.iters[i].removed # <<>>
           /\ lastOp.iters[i].recorded = 0

\* A transient duplicate: the retried add succeeded.
C35_WitnessRetried ==
    /\ lastOp.op = "apply"
    /\ \E i \in 1..Len(lastOp.iters) :
           /\ lastOp.iters[i].adds = <<"exists", "ok">>
           /\ lastOp.iters[i].recorded = 1

\* ---------------------------------------------------------------------------
\* cleanup handing a destination over to another session.

\* The interfaces through which sessions other than sid hold the destination
\* d and which are up.
OtherInterfaces(sr, up, sid, d) ==
    {sr[o][j].interface : <<o, j>> \in
        {<<o, j>> \in (Sessions \ {sid}) \X (1..(2 * MaxTargets)) :
             j <= Len(sr[o]) /\ OtherUsable(sr[o][j], d, up)}}

CommandsOf(log, action, d) ==
    {n \in 1..Len(log) : log[n].action = action /\ log[n].destination = d}

C37_WitnessFallsThrough ==
    /\ lastOp.op = "cleanup"
    /\ \E o \in Sessions \ {lastOp.sid} : session_routes[o] # <<>> /\ IfaceOf(o) \notin up_ifaces
    /\ \E n \in 1..Len(cmdLog) : cmdLog[n].action = "replace"

\* ---------------------------------------------------------------------------
\* Two sessions overriding one destination.

\* Both sessions have applied routes and been cleaned up since, and nothing
\* is recorded or pending for either.
BothEnded ==
    \A s \in Sessions :
        /\ cleaned[s] = "worked"
        /\ session_routes[s] = <<>> /\ pending_restores[s] = <<>>

\* C38: once both sessions that overrode the destination have been cleaned
\* up, whatever the order of the applies and of the cleanups, the kernel
\* routes to the destination are those that existed before the first apply,
\* and none goes through a tunnel interface.
C38_TwoSessionsRoundTrip ==
    BothEnded =>
        /\ \A d \in {r.dst : r \in kernel \cup kernel0} : RoutesTo(kernel, d) = RoutesTo(kernel0, d)
        /\ \A r \in kernel : r.dev \notin TunnelIfaces

\* ---------------------------------------------------------------------------
\* A cleanup pass for profile A beside the supervisor of profile B.  Texts are
\* sequences of atoms, separators included: "vpn.a.example:443" is
\* <<"vpn.a.example", ":", "443">>.
\* ---------------------------------------------------------------------------

otherThanScan ==
    <<profileVars, windowVars, attemptVars, race, bcall, pc, caller, teRet, tePid, stop_event,
      allow_reconnect, auto_reconnect, process, curPid, osProc, killable, active_processes,
      connected_once, success, backoff, attempts, failStreak, announced, prevBackoff,
      joined, configVars, routeVars, signalVars>>

ScanProfile(name, host, port, auth_type) ==
    [name |-> name, host |-> host, port |-> port, auth_type |-> auth_type, saml_port |-> ""]

\* The profiles of the two sessions: different names and hosts, each on one
\* of the two ports, with SAML or password login.
ScanProfilesA ==
    {ScanProfile("corp", <<"vpn.a.example">>, port, auth) :
         port \in Ports, auth \in {"saml", "password"}}
ScanProfilesB ==
    {ScanProfile("lab", <<"vpn.b.example">>, port, auth) :
         port \in Ports, auth \in {"saml", "password"}}

\* `token in text` for two atoms.
AtomIn(token, atom) ==
    \/ token = atom
    \/ <<token, atom>> \in {<<"443", "10443">>, <<"--saml-login", "--saml-login=">>}

\* `token in text`: a token of one atom lies in an atom of the text, a
\* longer one is a run of the text's atoms.
TextIn(token, text) ==
    IF Len(token) = 1
    THEN \E i \in 1..Len(text) : AtomIn(token[1], text[i])
    ELSE \E i \in 0..(Len(text) - Len(token)) :
             \A j \in 1..Len(token) : text[i + j] = token[j]

\* " ".join(cmdline)
RECURSIVE JoinWords(_)
JoinWords(words) ==
    IF words = <<>> THEN <<>>
    ELSE IF Len(words) = 1 THEN words[1]
    ELSE words[1] \o <<" ">> \o JoinWords(Tail(words))

HasColon(text) == \E i \in 1..Len(text) : text[i] = ":"
LastColon(text) == CHOOSE i \in 1..Len(text) : text[i] = ":" /\ \A j \in (i + 1)..Len(text) : text[j] # ":"
BeforeColon(text) == SubSeq(text, 1, LastColon(text) - 1)
AfterColon(text) == SubSeq(text, LastColon(text) + 1, Len(text))

\* VPNSession._build_command for a profile whose host carries no port.
ScanCommand(p) ==
    <<<<"openfortivpn">>, p.host \o <<":", p.port>>>>
        \o (IF Lower(p.auth_type) = "saml"
            THEN (IF p.saml_port # "" THEN <<<<"--saml-login=", p.saml_port>>>>
                  ELSE <<<<"--saml-login">>>>)
            ELSE <<>>)

\* _build_host_tokens, lines 241-251: every part of a signature is a token,
\* and so are the two sides of its last colon.
SignatureTokens(signature) ==
    UNION {{signature[i]} \cup (IF HasColon(signature[i])
                                THEN {BeforeColon(signature[i]), AfterColon(signature[i])}
                                ELSE {}) : i \in 1..Len(signature)}

\* _build_host_tokens
BuildHostTokens(prof, signatures) ==
    LET host_value == prof.host
        split == HasColon(host_value) /\ BeforeColon(host_value) # <<>>
        base_host == IF split THEN BeforeColon(host_value) ELSE host_value
        detected == IF HasColon(host_value) /\ Len(AfterColon(host_value)) = 1
                       /\ IsDigit(AfterColon(host_value)[1])
                    THEN AfterColon(host_value) ELSE <<>>
    IN  ({host_value, base_host, base_host \o <<":", prof.port>>,
          base_host \o <<" ", prof.port>>, <<prof.port>>}
         \cup (IF detected # <<>>
               THEN {detected, base_host \o <<" ">> \o detected, base_host \o <<":">> \o detected}
               ELSE {})
         \cup (IF Lower(prof.auth_type) = "saml"
               THEN {<<"--saml-login">>} \cup (IF prof.saml_port # "" THEN {<<prof.saml_port>>} ELSE {})
               ELSE {})
         \cup UNION {SignatureTokens(sg) : sg \in signatures})
        \ {<<>>}

\* _terminate_signature_matches, lines 266-279: whether the scan takes the
\* process for one of the profile.
ScanMatches(proc, tokens) ==
    /\ proc.cmdline # <<>>
    /\ (AtomIn("openfortivpn", proc.name) \/ TextIn(<<"openfortivpn">>, proc.cmdline[1]))
    /\ \E token \in tokens : TextIn(token, JoinWords(proc.cmdline))

\* The elevated argv Popen receives (PrivilegeManager.build_command).
HelperName == IF pkexec_path THEN "pkexec" ELSE "sudo"
HelperCommand(command) ==
    IF pkexec_path THEN <<<<"pkexec">>>> \o command ELSE <<<<"sudo">>, <<"-S">>>> \o command

\* start_new_session=True: the helper leads a process group of its own, and
\* the openfortivpn sudo starts is in it.
GroupOf(pid) == IF pid \in {"helper", "child"} THEN {"helper", "child"} ELSE {pid}

PidsOf(registry) == {e.pid : e \in registry}

\* _terminate_entry, lines 176-202, for a pid of the pass: a pid that is gone
\* is dropped from the registry; otherwise the signal goes to its process
\* group, the processes exit and the entry is dropped.
ScanTerminate(sc, pid) ==
    LET hit == IF sc.procs[pid].state = "running"
               THEN {q \in GroupOf(pid) : sc.procs[q].state = "running"} ELSE {}
    IN  [sc EXCEPT !.signalled = @ \cup hit,
                   !.procs = [q \in ScanPids |->
                                 IF q \in hit THEN [sc.procs[q] EXCEPT !.state = "exited"]
                                 ELSE sc.procs[q]],
                   !.active_processes = {e \in @ : e.pid # pid}]

RECURSIVE ScanTerminateAll(_, _)
ScanTerminateAll(sc, pids) ==
    IF pids = {} THEN sc
    ELSE LET pid == CHOOSE q \in pids : TRUE
         IN  ScanTerminateAll(ScanTerminate(sc, pid), pids \ {pid})

\* The process table and the registry when the pass and the other supervisor
\* start: the supervisor of A may have a tracked subprocess, and an earlier
\* run may have left an openfortivpn of A behind.
ScanStart(a, b, own, orphan) ==
    [ScanIdle EXCEPT
        !.a = a, !.b = b,
        !.procs = [p \in ScanPids |->
                      IF p = "own" /\ own
                      THEN [name |-> HelperName, cmdline |-> HelperCommand(ScanCommand(a)),
                            state |-> "running"]
                      ELSE IF p = "orphan" /\ orphan
                      THEN [name |-> "openfortivpn", cmdline |-> ScanCommand(a),
                            state |-> "running"]
                      ELSE NoProc],
        !.active_processes = IF own THEN {[pid |-> "own", profile |-> a.name,
                                           signature |-> ScanCommand(a)]}
                             ELSE {}]

InitScan ==
    /\ SessionIdleBeside
    /\ ConfigIdle
    /\ auto_reconnect = FALSE
    /\ killable = TRUE
    /\ RouteIdle
    /\ PrivilegeIdle
    /\ scan \in {ScanStart(a, b, own, orphan) :
                     a \in ScanProfilesA, b \in ScanProfilesB, own \in BOOLEAN, orphan \in BOOLEAN}

\* _run_once of B, lines 386-396: Popen starts the helper with the command.
BSpawn ==
    /\ scan.bpc = "idle"
    /\ scan' = [scan EXCEPT !.bpc = "spawned",
                            !.procs["helper"] = [name |-> HelperName,
                                                 cmdline |-> HelperCommand(ScanCommand(scan.b)),
                                                 state |-> "running"]]
    /\ UNCHANGED signalVars
    /\ UNCHANGED otherThanScan

\* The helper runs openfortivpn: pkexec replaces itself with it, sudo starts
\* it as a child in its process group.
HelperRuns ==
    /\ scan.procs["helper"].state = "running"
    /\ scan.procs["helper"].name # "openfortivpn"
    /\ scan.procs["child"].state = "none"
    /\ scan' = [scan EXCEPT !.procs[IF pkexec_path THEN "helper" ELSE "child"] =
                                [name |-> "openfortivpn", cmdline |-> ScanCommand(scan.b),
                                 state |-> "running"]]
    /\ UNCHANGED signalVars
    /\ UNCHANGED otherThanScan

\* _run_once of B, lines 397-406: the pid Popen returned is registered under
\* the profile name with the command as its signature.
BRegister ==
    /\ scan.bpc = "spawned"
    /\ scan' = [scan EXCEPT !.bpc = "registered",
                            !.active_processes = @ \cup {[pid |-> "helper",
                                                          profile |-> scan.b.name,
                                                          signature |-> ScanCommand(scan.b)]}]
    /\ UNCHANGED signalVars
    /\ UNCHANGED otherThanScan

\* cleanup_profile_processes(A), lines 296-302: the tracked entries of the
\* profile are terminated and their signatures kept; `signature` is whether
\* the caller passes the command signature of its session (stop, run).
PassTracked(signature) ==
    /\ scan.pc = "idle"
    /\ LET mine == {e \in scan.active_processes : e.profile = scan.a.name}
           sc == ScanTerminateAll(scan, PidsOf(mine))
       IN  scan' = [sc EXCEPT !.pc = "snapshot", !.signature = signature,
                              !.signatures = {e.signature : e \in mine}
                                  \cup (IF signature THEN {ScanCommand(scan.a)} ELSE {})]
    /\ UNCHANGED signalVars
    /\ UNCHANGED otherThanScan

\* _terminate_signature_matches, lines 262-264: the pids of the registry,
\* read once under the lock.
PassSnapshot ==
    /\ scan.pc = "snapshot"
    /\ scan' = [scan EXCEPT !.pc = "list", !.tracked = PidsOf(scan.active_processes)]
    /\ UNCHANGED signalVars
    /\ UNCHANGED otherThanScan

\* psutil.process_iter, line 265: the pids of the process table when the
\* iteration starts.
PassList ==
    /\ scan.pc = "list"
    /\ LET pids == {p \in ScanPids : scan.procs[p].state = "running"}
       IN  scan' = [scan EXCEPT !.pids = pids, !.pc = IF pids = {} THEN "done" ELSE "scan"]
    /\ UNCHANGED signalVars
    /\ UNCHANGED otherThanScan

\* _terminate_signature_matches, lines 265-286: one process of the iteration;
\* its name and command line are read now.
PassVisit(p) ==
    /\ scan.pc = "scan" /\ p \in scan.pids
    /\ LET sc == IF /\ p \notin scan.tracked
                    /\ scan.procs[p].state = "running"
                    /\ ScanMatches(scan.procs[p], BuildHostTokens(scan.a, scan.signatures))
                 THEN ScanTerminate(scan, p) ELSE scan
       IN  scan' = [sc EXCEPT !.pids = @ \ {p},
                              !.pc = IF scan.pids = {p} THEN "done" ELSE "scan"]
    /\ UNCHANGED signalVars
    /\ UNCHANGED otherThanScan

NextScan ==
    \/ BSpawn
    \/ HelperRuns
    \/ BRegister
    \/ \E signature \in BOOLEAN : PassTracked(signature)
    \/ PassSnapshot
    \/ PassList
    \/ \E p \in ScanPids : PassVisit(p)

SpecScan == InitScan /\ [][NextScan]_vars

\* C32: a cleanup pass for profile A never signals the subprocess the
\* supervisor of profile B has spawned, nor the openfortivpn it runs, however
\* the pass interleaves with B's spawn and registration.
C32_PassSparesOtherProfile ==
    scan.signalled \cap {"helper", "child"} = {}

\* What the pass does keep: a pid in the snapshot of the registry is not
\* signalled by the scan.
C32_TrackedAtSnapshotSpared ==
    (scan.pc \in {"list", "scan", "done"} /\ "helper" \in scan.tracked /\ pkexec_path) =>
        "helper" \notin scan.signalled

\* ---------------------------------------------------------------------------
\* stop() ending the supervisor thread.  Threads are scheduled fairly: a
\* step of the supervisor thread, or of stop() on the caller's thread, that
\* stays possible is taken.  Signalled processes exit (killable), and a
\* process that nobody signals keeps running unless it exits by itself.
\* ---------------------------------------------------------------------------

InitStop ==
    /\ SessionIdle
    /\ ConfigIdle
    /\ auto_reconnect \in BOOLEAN
    /\ killable = TRUE
    /\ RouteIdle
    /\ PrivilegeIdle

\* The statements of stop() and disconnect after the flag is set.
StopStep ==
    \/ StopPoll
    \/ TerminateEntry
    \/ TerminateWait
    \/ TerminateUnregister
    \/ CleanupTracked
    \/ \E visible \in BOOLEAN : SignatureMatches(visible)
    \/ StopRoutes
    \/ DisconnectReturns

SpecStop ==
    InitStop /\ [][Next]_vars /\ WF_vars(SupervisorStep) /\ WF_vars(StopStep)

\* C31: once stop() has set the flag, the supervisor thread reaches the end
\* of run() (Stopped emitted, the last cleanup pass done).
C31_StopEndsThread == stop_event ~> (pc = "done")

\* Where the thread stays for ever: stop() has returned, the flag is set,
\* and the thread is in process.wait() on a subprocess that runs and that
\* stop() never signalled.
C31_BlockedAfterStop ==
    ~(/\ stop_event /\ caller \in {"join", "disconnected"}
      /\ ThreadBlocked
      /\ \A i \in 1..Len(stopLog) : stopLog[i].ev # "run_privileged")
====
